---- MODULE Spec2Model ----
\* Verification model of the scheduling pipeline of native-link:
\*   CacheLookupScheduler (src/cas/scheduler/cache_lookup_scheduler.rs)
\*   stacked on GrpcScheduler (src/cas/scheduler/grpc_scheduler.rs).
\*
\* Every call made to the CacheLookupScheduler gets a slot c in Calls.
\* A slot owns what that call creates: the watch channel of add_action
\* (tx_val ...), the spawned cache-check task (pc), the channel and
\* forwarding task GrpcScheduler creates when the call reaches it
\* (g_pc ...), and the receiver handed back to the caller (rx ...).
EXTENDS Integers, Sequences, FiniteSets, TLC

\* ------------------------------------------------------------------ bounds
\* Number of calls (add_action / find_existing_action) made to the scheduler.
MaxCalls == 2
\* Number of RunningActionImpl objects the manager creates.
MaxActions == 2
\* Number of calls made on the manager and on its actions.
MaxWorkerCalls == 5
\* Number of output paths a Command declares, and of distinct paths.
MaxOutputs == 3
\* Number of modifications a PropertyModifierScheduler is configured with.
MaxModifications == 2
\* Largest amount a Minimum property requires or offers.
MaxMinimum == 2
\* Longest byte string written to a store.
MaxBytes == 2
\* Largest retry.max_retries a GrpcStore is configured with.
MaxRetries == 1
\* Deepest nesting of cache_lookup / property_modifier layers in a SchedulerConfig.
MaxLayers == 2
\* Bytes of a packed_hash (32 in the code; hash strings are twice as long).
HashBytes == 1
\* Deepest nesting of directories under an output directory.
MaxDepth == 2
\* Largest capacity of a byte-stream channel, in chunks.
MaxCapacity == 2
\* Most chunks a file is read in.
MaxChunks == 3
\* Most distinct Directory messages of a tree.
MaxDirectories == 3
\* Largest page_size of a GetTreeRequest.
MaxPageSize == 2
\* Most requests a paging client makes.
MaxPages == 4
\* Most subdirectories of a Directory.
MaxChildren == 2
Calls == 1..MaxCalls

\* ------------------------------------------------------------- data model
\* An absent optional digest field, an absent ProtoActionResult / ActionResult
\* and an absent request.
NoDigest == 0
NoResult == [absent |-> TRUE]
NoReq == [op |-> "none"]

\* ActionInfoHashKey (instance_name omitted: one instance): digest and salt.
HashKeys == {[digest |-> 1, salt |-> 0], [digest |-> 2, salt |-> 0]}

\* ActionInfo: the fields add_action reads.
ActionInfos == [unique_qualifier : HashKeys, skip_cache_lookup : BOOLEAN]

\* ProtoActionResult: the fields validate_outputs_exist reads.  A digest
\* field of an OutputFile / OutputDirectory is optional (NoDigest).
DefaultResult == [output_files |-> <<>>, output_directories |-> <<>>]
ResultWithOutputs == [output_files |-> <<10, NoDigest>>, output_directories |-> <<11>>]

\* The stores: the AC maps an action digest to a stored ProtoActionResult,
\* the CAS is the set of blob digests present.
StoreScenarios ==
    { [ac |-> (1 :> DefaultResult @@ 2 :> NoResult), cas |-> {}],
      [ac |-> (1 :> ResultWithOutputs @@ 2 :> DefaultResult), cas |-> {10, 11}],
      [ac |-> (1 :> ResultWithOutputs @@ 2 :> NoResult), cas |-> {10}],
      [ac |-> (1 :> NoResult @@ 2 :> ResultWithOutputs), cas |-> {11}] }

\* ActionStage.
TerminalStages == {"Completed", "CompletedFromCache", "Error"}
Stages == {"CacheCheck", "Queued", "Executing"} \cup TerminalStages

IsTerminal(stage) == stage \in TerminalStages

Rank(stage) ==
    CASE stage = "CacheCheck" -> 0
      [] stage = "Queued" -> 1
      [] stage = "Executing" -> 2
      [] OTHER -> 3

\* The stages the upstream Operation streams of this model carry: one that is
\* not terminal and one that is.
UpstreamStages == {"Queued", "Completed"}

\* Error codes GrpcScheduler::add_action fails with: the execute RPC failing
\* (transport) and "Upstream scheduler didn't accept action." (Internal).
GrpcErrors == {"Unavailable", "Internal"}

\* Value of a CacheLookupScheduler watch channel: an ActionState (its stage,
\* the ProtoActionResult / ActionResult it carries, the Error it carries) and
\* the statement that published it.
StateValue(stage, result, err, src) ==
    [stage |-> stage, result |-> result, err |-> err, src |-> src]
NoValue == StateValue("none", NoResult, "none", "none")

\* What a call returned: Ok(rx) / Err(code) of add_action, Some(rx) / None of
\* find_existing_action, or no return at all (the caller blocked or panicked).
\* chan / slot name the channel the returned receiver is subscribed to.
Ret(kind, chan, slot) == [kind |-> kind, chan |-> chan, slot |-> slot]
NoRet == Ret("none", "none", 0)

VARIABLES
    ac,                   \* AC store: action digest -> ProtoActionResult | NoResult
    cas,                  \* CAS store: set of digests present
    ncalls,               \* calls made so far
    req,                  \* c -> the call: [op, arg] | NoReq
    ret,                  \* c -> what the call returned to its caller
    pc,                   \* c -> position of the spawned cache-check task
    found,                \* c -> proto_action_result of the task
    store_err,            \* c -> a store operation of the task failed
    cache_check_actions,  \* HashKey -> slot whose sender is registered, 0: absent
    mutex_held,           \* cache_check_actions mutex held by a blocked thread
    tx_val,               \* c -> value of the watch channel created by add_action
    tx_borrowed,          \* c -> a Ref (read lock on the value) is outstanding
    tx_stuck_rx,          \* c -> a receiver owned by a blocked thread exists
    rx,                   \* c -> the caller's receiver: "none" | "held" | "dropped"
    rx_unseen,            \* c -> the channel changed since the receiver read it
    rx_obs,               \* c -> stage the caller observed last
    inner_req,            \* c -> request the inner scheduler received | NoReq
    inner_ret,            \* c -> what the inner scheduler returned
    g_pc,                 \* c -> GrpcScheduler forwarding task position
    g_val,                \* c -> stage in GrpcScheduler's watch channel
    ws_unseen,            \* c -> the task's WatchStream has a value to yield
    \* RunningActionsManagerImpl and its RunningActionImpl objects
    running_actions,      \* ActionId -> slot of the registered action, 0: absent
    work_dirs,            \* ActionIds whose work directory exists
    ra_pc,                \* a -> position of the action's caller
    ra_id,                \* a -> action_id of the RunningActionImpl
    command_proto,        \* a -> state.command_proto
    kill_channel_rx,      \* a -> state.kill_channel_rx is Some
    execution_result,     \* a -> state.execution_result
    ra_action_result,     \* a -> state.action_result
    did_cleanup,          \* a -> did_cleanup
    kill_channel,         \* a -> the one-shot kill channel
    child,                \* a -> the child process of execute
    start_kills,          \* a -> start_kill calls execute made
    remove_dir_result,    \* a -> remove_dir_result of a cleanup in progress
    ra_hist,              \* a -> steps of the lifecycle the action has taken
    w_calls,              \* calls made on the manager and its actions so far
    w_ret,                \* what the last worker call returned
    \* upload_results: the outputs of one action
    up_fs,                \* path -> what the work directory holds at the path
    up_paths,             \* command_proto.output_paths
    up_pending,           \* indices of output_paths whose future has not completed
    output_files,         \* Vec of FileInfo, as collected and then sorted
    output_folders,       \* Vec of DirectoryInfo
    output_symlinks,      \* Vec of SymlinkInfo
    up_completed,         \* indices of output_paths in the order their futures completed
    up_pc,                \* "none" | "collect" | "failed" | "done"
    \* PropertyModifierScheduler in front of an inner scheduler
    known_properties,     \* the inner scheduler's PlatformPropertyManager: key -> PropertyType
    modifications,        \* the configured list of PropertyModification
    platform_properties,  \* the properties of the ActionInfo handed to add_action
    forwarded,            \* the properties of the ActionInfo the inner scheduler received
    pm_pc,                \* "idle" | "forwarded" | "failed"
    \* PlatformProperties::is_satisfied_by
    required,             \* self: the properties an action requires
    worker_properties,    \* the properties a worker offers
    satisfied,            \* what the call returned
    sat_pc,               \* "call" | "returned"
    \* MemoryStore
    evicting_map,         \* digest -> the bytes stored, for the digests present
    ms_req,               \* the last call on the store
    ms_ret,               \* what it returned
    ms_updated,           \* digest -> bytes and size_info of the last update that
                          \* returned Ok, for the entries not evicted or removed since
    \* GrpcStore in front of an upstream
    gs_config,            \* instance_name, store_type, retry.max_retries
    gs_upstream,          \* what the upstream holds: CAS blobs and AC entries
    gs_req,               \* the last call on the store
    gs_ret,               \* what it returned
    gs_sent,              \* the requests that call sent upstream, one per attempt
    gs_writer,            \* what that call sent to its writer: chunks and EOFs
    gs_results,           \* the results slice of has_with_results
    \* SizePartitioningStore over two MemoryStores
    sp_size,              \* the configured size to partition on
    sp_lower,             \* lower_store: digest -> bytes
    sp_upper,             \* upper_store: digest -> bytes
    sp_req,               \* the last call on the partitioning store
    sp_ret,               \* what it returned
    sp_touched,           \* the children that call wrote to or queried
    \* scheduler_factory
    sf_config,            \* the SchedulerConfig: wrapping layers, outermost first, and the base
    sf_pos,               \* depth of the inner_scheduler_factory call that runs
    sf_pc,                \* "idle", "enter", "return", "done" or "failed"
    sf_action,            \* the action scheduler the last finished call returned
    sf_worker,            \* the worker scheduler it returned
    visited_schedulers,   \* addresses of the scheduler objects seen so far
    sf_registered,        \* object -> number of register_metrics calls on it
    \* DigestInfo values
    dg_infos,             \* the DigestInfo values alive
    dg_out,               \* what the last str() or into() returned
    \* the Tree of an output directory
    ud_fs,                \* what the work directory holds under the output path
    ud_out,               \* the Tree uploaded for it
    \* an update fed through a byte-stream channel
    rc_cfg,               \* the call, the channel's capacity, the chunks to send
    rc_pc,                \* where the call is: its select / try_join, or returned
    rc_chan,              \* chunks in the channel
    rc_sent,              \* chunks the feeding side has sent
    rc_feed,              \* the feeding side: "sending", "ok" or "err"
    rc_update,            \* the store's update: "reading", "ok" or "err"
    rc_early,             \* update completed before everything was sent
    rc_ret,               \* what the call returned
    \* GetTree of the CAS server
    gt_store,             \* the Directory stored under each digest: its children
    gt_req,               \* the last GetTreeRequest
    gt_resp,              \* the response to it
    gt_pages,             \* the pages a paging client has received, concatenated
    gt_count              \* the requests the paging client has made

storeVars == <<ac, cas>>
callVars == <<ncalls, req, ret>>
taskVars == <<pc, found, store_err>>
mapVars == <<cache_check_actions, mutex_held>>
txVars == <<tx_val, tx_borrowed, tx_stuck_rx>>
rxVars == <<rx, rx_unseen, rx_obs>>
grpcVars == <<inner_req, inner_ret, g_pc, g_val, ws_unseen>>

clsVars == <<storeVars, callVars, taskVars, mapVars, txVars, rxVars, grpcVars>>

managerVars == <<running_actions, work_dirs>>
actionVars == <<ra_pc, ra_id, command_proto, kill_channel_rx, execution_result,
                ra_action_result, did_cleanup>>
processVars == <<kill_channel, child, start_kills>>
workerVars == <<managerVars, actionVars, processVars, remove_dir_result, ra_hist,
                w_calls, w_ret>>

uploadVars == <<up_fs, up_paths, up_pending, output_files, output_folders,
                output_symlinks, up_completed, up_pc>>

modifierVars == <<known_properties, modifications, platform_properties,
                  forwarded, pm_pc>>

satisfyVars == <<required, worker_properties, satisfied, sat_pc>>

memoryVars == <<evicting_map, ms_req, ms_ret, ms_updated>>
gstoreVars == <<gs_config, gs_upstream, gs_req, gs_ret, gs_sent, gs_writer, gs_results>>
partVars == <<sp_size, sp_lower, sp_upper, sp_req, sp_ret, sp_touched>>
factoryVars == <<sf_config, sf_pos, sf_pc, sf_action, sf_worker, visited_schedulers,
                 sf_registered>>
digestVars == <<dg_infos, dg_out>>
treeVars == <<ud_fs, ud_out>>
raceVars == <<rc_cfg, rc_pc, rc_chan, rc_sent, rc_feed, rc_update, rc_early, rc_ret>>
getTreeVars == <<gt_store, gt_req, gt_resp, gt_pages, gt_count>>

\* What no step of the schedulers touches, what no step of the worker
\* touches, what no step of an upload touches, what no step of the
\* property modifier touches, what no is_satisfied_by call touches, what no
\* call on the MemoryStore touches, and so on for each later component.
clsFrame == <<workerVars, uploadVars, modifierVars, satisfyVars, memoryVars, gstoreVars, partVars, factoryVars, digestVars, treeVars, raceVars, getTreeVars>>
workerFrame == <<clsVars, uploadVars, modifierVars, satisfyVars, memoryVars, gstoreVars, partVars, factoryVars, digestVars, treeVars, raceVars, getTreeVars>>
uploadFrame == <<clsVars, workerVars, modifierVars, satisfyVars, memoryVars, gstoreVars, partVars, factoryVars, digestVars, treeVars, raceVars, getTreeVars>>
modifierFrame == <<clsVars, workerVars, uploadVars, satisfyVars, memoryVars, gstoreVars, partVars, factoryVars, digestVars, treeVars, raceVars, getTreeVars>>
satisfyFrame == <<clsVars, workerVars, uploadVars, modifierVars, memoryVars, gstoreVars, partVars, factoryVars, digestVars, treeVars, raceVars, getTreeVars>>
memoryFrame == <<clsVars, workerVars, uploadVars, modifierVars, satisfyVars, gstoreVars, partVars, factoryVars, digestVars, treeVars, raceVars, getTreeVars>>
gstoreFrame == <<clsVars, workerVars, uploadVars, modifierVars, satisfyVars, memoryVars, partVars, factoryVars, digestVars, treeVars, raceVars, getTreeVars>>
partFrame == <<clsVars, workerVars, uploadVars, modifierVars, satisfyVars, memoryVars, gstoreVars, factoryVars, digestVars, treeVars, raceVars, getTreeVars>>
factoryFrame == <<clsVars, workerVars, uploadVars, modifierVars, satisfyVars, memoryVars, gstoreVars, partVars, digestVars, treeVars, raceVars, getTreeVars>>
digestFrame == <<clsVars, workerVars, uploadVars, modifierVars, satisfyVars, memoryVars, gstoreVars, partVars, factoryVars, treeVars, raceVars, getTreeVars>>
treeFrame == <<clsVars, workerVars, uploadVars, modifierVars, satisfyVars, memoryVars, gstoreVars, partVars, factoryVars, digestVars, raceVars, getTreeVars>>
raceFrame == <<clsVars, workerVars, uploadVars, modifierVars, satisfyVars, memoryVars, gstoreVars, partVars, factoryVars, digestVars, treeVars, getTreeVars>>
getTreeFrame == <<clsVars, workerVars, uploadVars, modifierVars, satisfyVars, memoryVars, gstoreVars, partVars, factoryVars, digestVars, treeVars, raceVars>>

vars == <<clsVars, workerVars, uploadVars, modifierVars, satisfyVars, memoryVars, gstoreVars, partVars, factoryVars, digestVars, treeVars, raceVars, getTreeVars>>

\* ------------------------------------------------------ worker data
\* RunningActionImpl objects the manager creates, and their action ids.
Actions == 1..MaxActions
ActionIds == {"id1", "id2"}

\* Option::None of state.execution_result and state.action_result.
NoExecutionResult == [absent |-> TRUE]
NoActionResult == [absent |-> TRUE]

\* What a worker call returned: Ok, or an Error with its code and the
\* failures it carries.
OkRet(a, op) == [a |-> a, op |-> op, ok |-> TRUE, code |-> "Ok", causes |-> {}]
ErrRet(a, op, code, causes) ==
    [a |-> a, op |-> op, ok |-> FALSE, code |-> code, causes |-> causes]
NoWorkerRet == [a |-> 0, op |-> "none", ok |-> TRUE, code |-> "Ok", causes |-> {}]

\* RunningActionsManagerImpl::new, and no RunningActionImpl created yet.
WorkerInit ==
    /\ running_actions = [id \in ActionIds |-> 0]
    /\ work_dirs = {}
    /\ ra_pc = [a \in Actions |-> "none"]
    /\ ra_id = [a \in Actions |-> "none"]
    /\ command_proto = [a \in Actions |-> "None"]
    /\ kill_channel_rx = [a \in Actions |-> FALSE]
    /\ execution_result = [a \in Actions |-> NoExecutionResult]
    /\ ra_action_result = [a \in Actions |-> NoActionResult]
    /\ did_cleanup = [a \in Actions |-> FALSE]
    /\ kill_channel = [a \in Actions |-> "none"]
    /\ child = [a \in Actions |-> "none"]
    /\ start_kills = [a \in Actions |-> 0]
    /\ remove_dir_result = [a \in Actions |-> "none"]
    /\ ra_hist = [a \in Actions |-> {}]
    /\ w_calls = 0
    /\ w_ret = NoWorkerRet

\* CacheLookupScheduler::new: no call made, no task, no channel.
ClsInit ==
    /\ ncalls = 0
    /\ req = [c \in Calls |-> NoReq]
    /\ ret = [c \in Calls |-> NoRet]
    /\ pc = [c \in Calls |-> "none"]
    /\ found = [c \in Calls |-> NoResult]
    /\ store_err = [c \in Calls |-> FALSE]
    /\ cache_check_actions = [k \in HashKeys |-> 0]
    /\ mutex_held = FALSE
    /\ tx_val = [c \in Calls |-> NoValue]
    /\ tx_borrowed = [c \in Calls |-> FALSE]
    /\ tx_stuck_rx = [c \in Calls |-> FALSE]
    /\ rx = [c \in Calls |-> "none"]
    /\ rx_unseen = [c \in Calls |-> FALSE]
    /\ rx_obs = [c \in Calls |-> "none"]
    /\ inner_req = [c \in Calls |-> NoReq]
    /\ inner_ret = [c \in Calls |-> "none"]
    /\ g_pc = [c \in Calls |-> "none"]
    /\ g_val = [c \in Calls |-> "none"]
    /\ ws_unseen = [c \in Calls |-> FALSE]

\* No upload_results under way.
UploadIdle ==
    /\ up_fs = <<>>
    /\ up_paths = <<>>
    /\ up_pending = {}
    /\ output_files = <<>>
    /\ output_folders = <<>>
    /\ output_symlinks = <<>>
    /\ up_completed = <<>>
    /\ up_pc = "none"

\* A PropertyModifierScheduler without modifications that is never called.
ModifierIdle ==
    /\ known_properties = <<>>
    /\ modifications = <<>>
    /\ platform_properties = <<>>
    /\ forwarded = <<>>
    /\ pm_pc = "none"

\* No is_satisfied_by call under way.
SatisfyIdle ==
    /\ required = <<>>
    /\ worker_properties = <<>>
    /\ satisfied = FALSE
    /\ sat_pc = "none"

\* MemoryStore::new: an empty map, no call made.
MemoryInit ==
    /\ evicting_map = <<>>
    /\ ms_req = [op |-> "none"]
    /\ ms_ret = [op |-> "none"]
    /\ ms_updated = <<>>

\* No GrpcStore built.
GrpcStoreIdle ==
    /\ gs_config = <<>>
    /\ gs_upstream = <<>>
    /\ gs_req = [op |-> "none"]
    /\ gs_ret = [op |-> "none"]
    /\ gs_sent = <<>>
    /\ gs_writer = <<>>
    /\ gs_results = <<>>

\* No SizePartitioningStore built.
PartitionIdle ==
    /\ sp_size = 0
    /\ sp_lower = <<>>
    /\ sp_upper = <<>>
    /\ sp_req = [op |-> "none"]
    /\ sp_ret = [op |-> "none"]
    /\ sp_touched = {}

\* scheduler_factory not called.
FactoryIdle ==
    /\ sf_config = [layers |-> <<>>, base |-> "simple", stores_exist |-> TRUE]
    /\ sf_pos = 0
    /\ sf_pc = "idle"
    /\ sf_action = 0
    /\ sf_worker = 0
    /\ visited_schedulers = {}
    /\ sf_registered = <<>>

\* No DigestInfo built.
DigestIdle ==
    /\ dg_infos = <<>>
    /\ dg_out = [op |-> "none"]

\* No output directory uploaded.
TreeIdle ==
    /\ ud_fs = [files |-> {}, dirs |-> <<>>]
    /\ ud_out = [op |-> "none"]

\* No update under way.
RaceIdle ==
    /\ rc_cfg = [kind |-> "none", cap |-> 1, total |-> 0]
    /\ rc_pc = "idle"
    /\ rc_chan = 0
    /\ rc_sent = 0
    /\ rc_feed = "sending"
    /\ rc_update = "reading"
    /\ rc_early = FALSE
    /\ rc_ret = [ok |-> TRUE, causes |-> {}]

\* No GetTree request made.
GetTreeIdle ==
    /\ gt_store = [d \in 1..MaxDirectories |-> <<>>]
    /\ gt_req = [sent |-> FALSE, page_size |-> 0, page_token |-> <<>>]
    /\ gt_resp = [ok |-> TRUE, directories |-> <<>>, next_page_token |-> <<>>]
    /\ gt_pages = <<>>
    /\ gt_count = 0

\* The components added after the upload, at rest.
OthersIdle == ModifierIdle /\ SatisfyIdle /\ MemoryInit /\ GrpcStoreIdle /\ PartitionIdle /\ FactoryIdle /\ DigestIdle /\ TreeIdle /\ RaceIdle /\ GetTreeIdle

\* Stores a scheduler that is never called sits on.
IdleStores == ac = [d \in {1, 2} |-> NoResult] /\ cas = {}

Init ==
    /\ \E sc \in StoreScenarios : ac = sc.ac /\ cas = sc.cas
    /\ ClsInit
    /\ WorkerInit
    /\ UploadIdle
    /\ OthersIdle

\* ------------------------------------------------- tokio::sync::watch
\* Callers' receivers subscribed to the channel add_action created in slot t.
TxSubscribers(t) ==
    {c \in Calls : rx[c] = "held" /\ ret[c].chan = "cls" /\ ret[c].slot = t}

\* receiver_count of that channel: the callers' receivers and a receiver
\* living on the stack of a blocked find_existing_action.
TxReceivers(t) ==
    Cardinality(TxSubscribers(t)) + (IF tx_stuck_rx[t] THEN 1 ELSE 0)

\* receiver_count of GrpcScheduler's channel in slot c: the WatchStream of the
\* cache-check task while it forwards, or the caller's receiver.
GrpcReceivers(c) ==
    (IF pc[c] = "forward" THEN 1 ELSE 0)
        + (IF rx[c] = "held" /\ ret[c].chan = "grpc" THEN 1 ELSE 0)

\* Sender::send: fails, leaving the value alone, when there is no receiver;
\* otherwise replaces the value and marks it unseen for every receiver.
WatchSendOk(t) == TxReceivers(t) # 0

WatchSend(t, value) ==
    IF WatchSendOk(t)
    THEN /\ tx_val' = [tx_val EXCEPT ![t] = value]
         /\ rx_unseen' = [c \in Calls |-> (c \in TxSubscribers(t)) \/ rx_unseen[c]]
    ELSE UNCHANGED <<tx_val, rx_unseen>>

\* Sender::send takes the write lock of the value.  With a Ref (a read lock)
\* outstanding on the calling thread the lock can never be granted: the
\* thread blocks for ever, or the lock implementation detects it and panics.
WriteLockOutcomes(borrowed) ==
    IF borrowed THEN {"blocked", "panicked"} ELSE {"acquired"}

\* ------------------------------------------------------ GrpcScheduler
\* GrpcScheduler::add_action / stream_state up to the first response: the
\* execute RPC fails (Unavailable), the stream yields no first message
\* (Internal), or the first Operation gives the channel's initial stage.
GrpcAddOutcomes == GrpcErrors \cup UpstreamStages

\* stream_state on a first response: watch::channel(initial) and the spawned
\* forwarding task.
StreamState(c, initial) ==
    /\ g_pc' = [g_pc EXCEPT ![c] = "running"]
    /\ g_val' = [g_val EXCEPT ![c] = initial]

\* ------------------------------------------------- CacheLookupScheduler
\* get_action_from_store: None on any error of the store (.ok()), else the
\* decoded entry of the AC for the action digest.
get_action_from_store(ac_store, action_digest, store_ok) ==
    IF store_ok THEN ac_store[action_digest] ELSE NoResult

\* The digests validate_outputs_exist requires: output_files[*].digest and
\* output_directories[*].tree_digest, skipping absent fields (filter_map).
RequiredDigests(action_result) ==
    ({action_result.output_files[i] : i \in DOMAIN action_result.output_files}
        \cup {action_result.output_directories[i] :
                i \in DOMAIN action_result.output_directories})
        \ {NoDigest}

\* validate_outputs_exist checking the output files only.
validate_outputs_exist_FilesOnly(cas_store, action_result, store_ok) ==
    store_ok /\ \A i \in DOMAIN action_result.output_files :
                    action_result.output_files[i] \in cas_store \cup {NoDigest}

\* validate_outputs_exist that takes an error of the existence check for
\* presence.
validate_outputs_exist_ErrorIsPresent(cas_store, action_result, store_ok) ==
    ~store_ok \/ \A d \in RequiredDigests(action_result) : d \in cas_store

\* validate_outputs_exist: every required digest is present; an error of the
\* existence check counts as absent.
validate_outputs_exist(cas_store, action_result, store_ok) ==
    store_ok /\ \A d \in RequiredDigests(action_result) : d \in cas_store

\* The call takes the next slot.
NextCall == ncalls + 1

\* AddActionSkip that also registers a sender for the key in the map.
AddActionSkip_Registers(c, action_info, outcome) ==
    /\ inner_req' = [inner_req EXCEPT ![c] = [op |-> "add_action", arg |-> action_info]]
    /\ inner_ret' = [inner_ret EXCEPT ![c] =
                        IF outcome \in GrpcErrors THEN outcome ELSE "Ok"]
    /\ IF outcome \in GrpcErrors
       THEN /\ ret' = [ret EXCEPT ![c] = Ret(outcome, "none", 0)]
            /\ UNCHANGED <<g_pc, g_val, rx, rx_unseen>>
       ELSE /\ ret' = [ret EXCEPT ![c] = Ret("Ok", "grpc", c)]
            /\ StreamState(c, outcome)
            /\ rx' = [rx EXCEPT ![c] = "held"]
            /\ rx_unseen' = [rx_unseen EXCEPT ![c] = TRUE]
    /\ cache_check_actions' =
            [cache_check_actions EXCEPT ![action_info.unique_qualifier] = c]
    /\ UNCHANGED <<taskVars, mutex_held, txVars, rx_obs, ws_unseen>>

\* add_action, skip_cache_lookup = true (lines 146-149): the whole call is the
\* inner scheduler's add_action, and its result is returned.
AddActionSkip(c, action_info, outcome) ==
    /\ inner_req' = [inner_req EXCEPT ![c] = [op |-> "add_action", arg |-> action_info]]
    /\ inner_ret' = [inner_ret EXCEPT ![c] =
                        IF outcome \in GrpcErrors THEN outcome ELSE "Ok"]
    /\ IF outcome \in GrpcErrors
       THEN /\ ret' = [ret EXCEPT ![c] = Ret(outcome, "none", 0)]
            /\ UNCHANGED <<g_pc, g_val, rx, rx_unseen>>
       ELSE /\ ret' = [ret EXCEPT ![c] = Ret("Ok", "grpc", c)]
            /\ StreamState(c, outcome)
            /\ rx' = [rx EXCEPT ![c] = "held"]
            /\ rx_unseen' = [rx_unseen EXCEPT ![c] = TRUE]
    /\ UNCHANGED <<taskVars, mapVars, txVars, rx_obs, ws_unseen>>

\* add_action, skip_cache_lookup = false (lines 150-163, 194): the channel is
\* created holding CacheCheck, the sender is inserted under the key (replacing
\* whatever the map held for it), the task is spawned and Ok(rx) is returned.
AddActionLookup(c, action_info) ==
    /\ ~mutex_held
    /\ tx_val' = [tx_val EXCEPT ![c] =
                    StateValue("CacheCheck", NoResult, "none", "add_action")]
    /\ cache_check_actions' =
            [cache_check_actions EXCEPT ![action_info.unique_qualifier] = c]
    /\ pc' = [pc EXCEPT ![c] = "get_action_from_store"]
    /\ ret' = [ret EXCEPT ![c] = Ret("Ok", "cls", c)]
    /\ rx' = [rx EXCEPT ![c] = "held"]
    /\ rx_unseen' = [rx_unseen EXCEPT ![c] = TRUE]
    /\ UNCHANGED <<found, store_err, mutex_held, tx_borrowed, tx_stuck_rx, rx_obs, grpcVars>>

\* CacheLookupScheduler::add_action.
AddAction ==
    /\ ncalls < MaxCalls
    /\ \E action_info \in ActionInfos :
        /\ req' = [req EXCEPT ![NextCall] = [op |-> "add_action", arg |-> action_info]]
        /\ IF action_info.skip_cache_lookup
           THEN \E outcome \in GrpcAddOutcomes :
                    AddActionSkip(NextCall, action_info, outcome)
           ELSE AddActionLookup(NextCall, action_info)
    /\ ncalls' = NextCall
    /\ UNCHANGED <<clsFrame, storeVars>>

\* The ActionInfo the task of slot c was spawned with.
InfoOf(c) == req[c].arg

\* Spawned task, line 166-167: the AC lookup.
GetActionFromStore(c) ==
    /\ pc[c] = "get_action_from_store"
    /\ \E store_ok \in BOOLEAN :
        LET r == get_action_from_store(ac, InfoOf(c).unique_qualifier.digest, store_ok)
        IN  /\ found' = [found EXCEPT ![c] = r]
            /\ store_err' = [store_err EXCEPT ![c] = ~store_ok]
            /\ pc' = [pc EXCEPT ![c] =
                        IF r # NoResult THEN "validate_outputs_exist"
                                        ELSE "add_action_upstream"]
    /\ UNCHANGED <<clsFrame, storeVars, callVars, mapVars, txVars, rxVars, grpcVars>>

\* Spawned task, line 169: the CAS check of the outputs of the found result.
ValidateOutputsExist(c) ==
    /\ pc[c] = "validate_outputs_exist"
    /\ \E store_ok \in BOOLEAN :
        /\ pc' = [pc EXCEPT ![c] =
                    IF validate_outputs_exist(cas, found[c], store_ok)
                    THEN "send_cached" ELSE "add_action_upstream"]
        /\ store_err' = [store_err EXCEPT ![c] = ~store_ok]
    /\ UNCHANGED <<clsFrame, storeVars, callVars, found, mapVars, txVars, rxVars, grpcVars>>

\* SendCached without the return of line 174: the task goes on to the inner
\* scheduler after publishing CompletedFromCache.
SendCached_NoReturn(c) ==
    /\ pc[c] = "send_cached"
    /\ "acquired" \in WriteLockOutcomes(tx_borrowed[c])
    /\ WatchSend(c, StateValue("CompletedFromCache", found[c], "none", "cache"))
    /\ pc' = [pc EXCEPT ![c] = "add_action_upstream"]
    /\ UNCHANGED <<clsFrame, storeVars, callVars, found, store_err, mapVars, tx_borrowed,
                   tx_stuck_rx, rx, rx_obs, grpcVars>>

\* SendCached publishing a default ActionResult instead of the one found.
SendCached_DefaultResult(c) ==
    /\ pc[c] = "send_cached"
    /\ "acquired" \in WriteLockOutcomes(tx_borrowed[c])
    /\ WatchSend(c, StateValue("CompletedFromCache", DefaultResult, "none", "cache"))
    /\ pc' = [pc EXCEPT ![c] = "remove_cached"]
    /\ UNCHANGED <<clsFrame, storeVars, callVars, found, store_err, mapVars, tx_borrowed,
                   tx_stuck_rx, rx, rx_obs, grpcVars>>

\* Spawned task, lines 171-172: publish CompletedFromCache(proto_action_result).
SendCached(c) ==
    /\ pc[c] = "send_cached"
    /\ "acquired" \in WriteLockOutcomes(tx_borrowed[c])
    /\ WatchSend(c, StateValue("CompletedFromCache", found[c], "none", "cache"))
    /\ pc' = [pc EXCEPT ![c] = "remove_cached"]
    /\ UNCHANGED <<clsFrame, storeVars, callVars, found, store_err, mapVars, tx_borrowed, tx_stuck_rx,
                   rx, rx_obs, grpcVars>>

\* cache_check_actions.lock().remove(&unique_qualifier): removes whatever the
\* map holds under the key; the task ends.
RemoveFromMap(c) ==
    /\ ~mutex_held
    /\ cache_check_actions' =
            [cache_check_actions EXCEPT ![InfoOf(c).unique_qualifier] = 0]
    /\ pc' = [pc EXCEPT ![c] = "done"]
    /\ UNCHANGED <<clsFrame, storeVars, callVars, found, store_err, mutex_held, txVars, rxVars, grpcVars>>

\* Spawned task, lines 173-174.
RemoveCached(c) ==
    /\ pc[c] = "remove_cached"
    /\ RemoveFromMap(c)

\* Spawned task, line 178: the action goes to the inner scheduler.
AddActionUpstream(c) ==
    /\ pc[c] = "add_action_upstream"
    /\ \E outcome \in GrpcAddOutcomes :
        /\ inner_req' = [inner_req EXCEPT ![c] =
                            [op |-> "add_action", arg |-> InfoOf(c)]]
        /\ IF outcome \in GrpcErrors
           THEN /\ inner_ret' = [inner_ret EXCEPT ![c] = outcome]
                /\ pc' = [pc EXCEPT ![c] = "send_error"]
                /\ UNCHANGED <<g_pc, g_val, ws_unseen>>
           ELSE /\ inner_ret' = [inner_ret EXCEPT ![c] = "Ok"]
                /\ pc' = [pc EXCEPT ![c] = "forward"]
                /\ StreamState(c, outcome)
                /\ ws_unseen' = [ws_unseen EXCEPT ![c] = TRUE]
    /\ UNCHANGED <<clsFrame, storeVars, callVars, found, store_err, mapVars, txVars, rxVars>>

\* SendError that drops the error: the task goes on to its remove without
\* publishing anything.
SendError_DropsError(c) ==
    /\ pc[c] = "send_error"
    /\ pc' = [pc EXCEPT ![c] = "remove"]
    /\ UNCHANGED <<clsFrame, storeVars, callVars, found, store_err, mapVars, txVars, rxVars, grpcVars>>

\* Spawned task, lines 187-190: publish Error((err, ActionResult::default())).
SendError(c) ==
    /\ pc[c] = "send_error"
    /\ "acquired" \in WriteLockOutcomes(tx_borrowed[c])
    /\ WatchSend(c, StateValue("Error", DefaultResult, inner_ret[c], "error"))
    /\ pc' = [pc EXCEPT ![c] = "remove"]
    /\ UNCHANGED <<clsFrame, storeVars, callVars, found, store_err, mapVars, tx_borrowed, tx_stuck_rx,
                   rx, rx_obs, grpcVars>>

\* ForwardState sending the task's own current_state instead of the state
\* the WatchStream yielded.
ForwardState_SendsOwnState(c) ==
    /\ pc[c] = "forward"
    /\ IF ws_unseen[c]
       THEN /\ "acquired" \in WriteLockOutcomes(tx_borrowed[c])
            /\ ws_unseen' = [ws_unseen EXCEPT ![c] = FALSE]
            /\ WatchSend(c, tx_val[c])
            /\ pc' = [pc EXCEPT ![c] = IF WatchSendOk(c) THEN "forward" ELSE "remove"]
       ELSE /\ g_pc[c] = "stopped"
            /\ pc' = [pc EXCEPT ![c] = "remove"]
            /\ UNCHANGED <<ws_unseen, tx_val, rx_unseen>>
    /\ UNCHANGED <<clsFrame, storeVars, callVars, found, store_err, mapVars, tx_borrowed,
                   tx_stuck_rx, rx, rx_obs, inner_req, inner_ret, g_pc, g_val>>

\* Spawned task, lines 180-185: one turn of the proxy loop.  The WatchStream
\* yields the inner channel's value when it has one it did not yield yet and
\* ends when the inner sender is gone; a failed send breaks the loop.
ForwardState(c) ==
    /\ pc[c] = "forward"
    /\ IF ws_unseen[c]
       THEN /\ "acquired" \in WriteLockOutcomes(tx_borrowed[c])
            /\ ws_unseen' = [ws_unseen EXCEPT ![c] = FALSE]
            /\ WatchSend(c, StateValue(g_val[c], NoResult, "none", "inner"))
            /\ pc' = [pc EXCEPT ![c] = IF WatchSendOk(c) THEN "forward" ELSE "remove"]
       ELSE /\ g_pc[c] = "stopped"
            /\ pc' = [pc EXCEPT ![c] = "remove"]
            /\ UNCHANGED <<ws_unseen, tx_val, rx_unseen>>
    /\ UNCHANGED <<clsFrame, storeVars, callVars, found, store_err, mapVars, tx_borrowed, tx_stuck_rx,
                   rx, rx_obs, inner_req, inner_ret, g_pc, g_val>>

\* Spawned task, line 192.
RemoveForwarded(c) ==
    /\ pc[c] = "remove"
    /\ RemoveFromMap(c)

\* ------------------------------------------- GrpcScheduler forwarding task
\* The upstream sends stages in order and nothing after a terminal one.
UpstreamNext(stage) ==
    IF IsTerminal(stage) THEN {}
    ELSE {s \in UpstreamStages : Rank(s) >= Rank(stage)}

\* stream_state, lines 69-78: a response arrived.  One that converts is sent
\* on the channel, and the task returns when the send fails; one that does
\* not convert is logged.
GrpcMessage(c) ==
    /\ g_pc[c] = "running"
    /\ \E m \in UpstreamNext(g_val[c]) \cup {"unconvertible"} :
        IF m = "unconvertible"
        THEN UNCHANGED <<g_pc, g_val, ws_unseen, rx_unseen>>
        ELSE IF GrpcReceivers(c) = 0
             THEN /\ g_pc' = [g_pc EXCEPT ![c] = "stopped"]
                  /\ UNCHANGED <<g_val, ws_unseen, rx_unseen>>
             ELSE /\ g_val' = [g_val EXCEPT ![c] = m]
                  /\ ws_unseen' = [ws_unseen EXCEPT ![c] = (pc[c] = "forward")]
                  /\ rx_unseen' = [rx_unseen EXCEPT ![c] =
                                    IF pc[c] = "forward" THEN @ ELSE TRUE]
                  /\ UNCHANGED g_pc
    /\ UNCHANGED <<clsFrame, storeVars, callVars, taskVars, mapVars, txVars, rx, rx_obs,
                   inner_req, inner_ret>>

\* stream_state, line 69: message() gave Ok(None) or Err.  The pattern
\* Ok(Some(response)) does not match, the branch is disabled and the select
\* is left waiting on tx.closed() alone.
GrpcStreamEnd(c) ==
    /\ g_pc[c] = "running"
    /\ g_pc' = [g_pc EXCEPT ![c] = "wait_closed"]
    /\ UNCHANGED <<clsFrame, storeVars, callVars, taskVars, mapVars, txVars, rxVars,
                   inner_req, inner_ret, g_val, ws_unseen>>

\* stream_state, lines 65-68: every receiver is gone; the task returns and
\* drops the sender.
GrpcClosed(c) ==
    /\ g_pc[c] \in {"running", "wait_closed"}
    /\ GrpcReceivers(c) = 0
    /\ g_pc' = [g_pc EXCEPT ![c] = "stopped"]
    /\ UNCHANGED <<clsFrame, storeVars, callVars, taskVars, mapVars, txVars, rxVars,
                   inner_req, inner_ret, g_val, ws_unseen>>

\* ------------------------------------------------- find_existing_action
\* Line 204, `let current_value = tx.borrow();`: the Ref is bound to a local
\* of the block, so it is still alive when line 208 calls tx.send.
BorrowHeldAtSend == TRUE

\* Lines 203-209, the key is in the map and t is the slot of its sender:
\* borrow, subscribe, send the borrowed value again, return Some(rx).
FindInFlight(c, t, outcome) ==
    /\ CASE outcome = "acquired" ->
              /\ ret' = [ret EXCEPT ![c] = Ret("Some", "cls", t)]
              /\ rx' = [rx EXCEPT ![c] = "held"]
              /\ rx_unseen' = [x \in Calls |->
                                (x = c) \/ (x \in TxSubscribers(t)) \/ rx_unseen[x]]
              /\ UNCHANGED <<mutex_held, txVars>>
         [] outcome = "blocked" ->
              \* The thread waits in send for ever: its guard of the map's
              \* mutex, its Ref and its new receiver are never released.
              /\ mutex_held' = TRUE
              /\ tx_borrowed' = [tx_borrowed EXCEPT ![t] = TRUE]
              /\ tx_stuck_rx' = [tx_stuck_rx EXCEPT ![t] = TRUE]
              /\ ret' = [ret EXCEPT ![c] = Ret("blocked", "none", 0)]
              /\ UNCHANGED <<tx_val, rx, rx_unseen>>
         [] outcome = "panicked" ->
              \* Unwinding drops the receiver, the Ref and the mutex guard.
              /\ ret' = [ret EXCEPT ![c] = Ret("panicked", "none", 0)]
              /\ UNCHANGED <<mutex_held, txVars, rx, rx_unseen>>
    /\ UNCHANGED <<cache_check_actions, rx_obs, grpcVars>>

\* GrpcScheduler::find_existing_action: None when wait_execution or the first
\* response fails, else Some(rx) of a new forwarding task.
GrpcFindOutcomes == {"None"} \cup UpstreamStages

\* Lines 212-213, the key is not in the map: the inner scheduler is asked.
FindUpstream(c, unique_qualifier, outcome) ==
    /\ inner_req' = [inner_req EXCEPT ![c] =
                        [op |-> "find_existing_action", arg |-> unique_qualifier]]
    /\ IF outcome = "None"
       THEN /\ inner_ret' = [inner_ret EXCEPT ![c] = "None"]
            /\ ret' = [ret EXCEPT ![c] = Ret("None", "none", 0)]
            /\ UNCHANGED <<g_pc, g_val, rx, rx_unseen>>
       ELSE /\ inner_ret' = [inner_ret EXCEPT ![c] = "Some"]
            /\ ret' = [ret EXCEPT ![c] = Ret("Some", "grpc", c)]
            /\ StreamState(c, outcome)
            /\ rx' = [rx EXCEPT ![c] = "held"]
            /\ rx_unseen' = [rx_unseen EXCEPT ![c] = TRUE]
    /\ UNCHANGED <<mapVars, txVars, rx_obs, ws_unseen>>

\* CacheLookupScheduler::find_existing_action.
FindExistingAction ==
    /\ ncalls < MaxCalls
    /\ ~mutex_held
    /\ \E unique_qualifier \in HashKeys :
        /\ req' = [req EXCEPT ![NextCall] =
                    [op |-> "find_existing_action", arg |-> unique_qualifier]]
        /\ IF cache_check_actions[unique_qualifier] # 0
           THEN \E outcome \in WriteLockOutcomes(BorrowHeldAtSend) :
                    FindInFlight(NextCall, cache_check_actions[unique_qualifier], outcome)
           ELSE \E outcome \in GrpcFindOutcomes :
                    FindUpstream(NextCall, unique_qualifier, outcome)
    /\ ncalls' = NextCall
    /\ UNCHANGED <<clsFrame, storeVars, taskVars>>

\* ------------------------------------------------------------ the callers
\* Stage in the channel the receiver of call c is subscribed to.
ChanStage(c) == IF ret[c].chan = "cls" THEN tx_val[ret[c].slot].stage ELSE g_val[c]

\* The caller reads the channel's value when it has changed.
ClientObserve(c) ==
    /\ rx[c] = "held"
    /\ rx_unseen[c]
    /\ rx_unseen' = [rx_unseen EXCEPT ![c] = FALSE]
    /\ rx_obs' = [rx_obs EXCEPT ![c] = ChanStage(c)]
    /\ UNCHANGED <<clsFrame, storeVars, callVars, taskVars, mapVars, txVars, rx, grpcVars>>

\* The caller drops its receiver, and with it what the receiver had seen.
ClientDrop(c) ==
    /\ rx[c] = "held"
    /\ rx' = [rx EXCEPT ![c] = "dropped"]
    /\ rx_unseen' = [rx_unseen EXCEPT ![c] = FALSE]
    /\ rx_obs' = [rx_obs EXCEPT ![c] = "none"]
    /\ UNCHANGED <<clsFrame, storeVars, callVars, taskVars, mapVars, txVars, grpcVars>>

\* ---------------------------------------------------------- specification
TaskStep(c) ==
    \/ GetActionFromStore(c)
    \/ ValidateOutputsExist(c)
    \/ SendCached(c)
    \/ RemoveCached(c)
    \/ AddActionUpstream(c)
    \/ SendError(c)
    \/ ForwardState(c)
    \/ RemoveForwarded(c)

GrpcStep(c) ==
    \/ GrpcMessage(c)
    \/ GrpcStreamEnd(c)
    \/ GrpcClosed(c)

Next ==
    \/ AddAction
    \/ FindExistingAction
    \/ \E c \in Calls : TaskStep(c)
    \/ \E c \in Calls : GrpcStep(c)
    \/ \E c \in Calls : ClientObserve(c)
    \/ \E c \in Calls : ClientDrop(c)

Spec == Init /\ [][Next]_vars

\* The runtime schedules every spawned task that can run, the upstream
\* answers or ends its stream, and a caller holding a receiver reads it.
SpecFair ==
    /\ Spec
    /\ \A c \in Calls : WF_vars(TaskStep(c))
    /\ \A c \in Calls : WF_vars(GrpcStep(c))
    /\ \A c \in Calls : WF_vars(ClientObserve(c))

\* ------------------------------------------------------------- claims
\* Call c is an add_action with skip_cache_lookup = false / true.
IsLookup(c) == req[c].op = "add_action" /\ ~req[c].arg.skip_cache_lookup
IsSkip(c) == req[c].op = "add_action" /\ req[c].arg.skip_cache_lookup

\* This step published a value on the channel of slot c.
Published(c) ==
    \/ tx_val'[c] # tx_val[c]
    \/ \E x \in TxSubscribers(c) : ~rx_unseen[x] /\ rx_unseen'[x]

\* The value published in this step is CompletedFromCache from the cache.
PublishedCached(c) ==
    tx_val'[c].stage = "CompletedFromCache" /\ tx_val'[c].src = "cache"

\* The value published in this step is the state the inner scheduler's
\* channel for this action holds.
PublishedInner(c) ==
    /\ inner_req[c] = [op |-> "add_action", arg |-> InfoOf(c)]
    /\ tx_val'[c] = StateValue(g_val[c], NoResult, "none", "inner")

\* The value published in this step is Error(err, ActionResult::default())
\* for the error the inner scheduler's add_action returned.
PublishedError(c) ==
    /\ inner_ret[c] \in GrpcErrors
    /\ tx_val'[c] = StateValue("Error", DefaultResult, inner_ret[c], "error")

\* The channel is created in this step.
Created(c) == pc[c] = "none" /\ pc'[c] # "none"

\* C1 as stated: the subscription of add_action (skip_cache_lookup = false)
\* starts with CacheCheck, and every value published after it is either
\* CompletedFromCache, after which nothing is published, or a state the inner
\* scheduler emitted for the action.
C1_OnlyCachedOrInner ==
    [][\A c \in Calls :
        /\ Created(c) => tx_val'[c].stage = "CacheCheck"
        /\ (~Created(c) /\ Published(c)) =>
                /\ tx_val[c].src # "cache"
                /\ PublishedCached(c) \/ PublishedInner(c)]_vars

\* C1 amended: the subscription starts with CacheCheck, and every value
\* published after it is CompletedFromCache, a state the inner scheduler
\* emitted for the action, or Error(err, ActionResult::default()) for the
\* error of the inner scheduler's add_action; nothing is published after
\* CompletedFromCache or after that Error.
C1_CachedInnerOrError ==
    [][\A c \in Calls :
        /\ Created(c) => tx_val'[c].stage = "CacheCheck"
        /\ (~Created(c) /\ Published(c)) =>
                /\ tx_val[c].src \notin {"cache", "error"}
                /\ PublishedCached(c) \/ PublishedInner(c) \/ PublishedError(c)]_vars

\* C1 witness: the task of an add_action ended after publishing the Error of
\* the inner add_action on its subscription.
C1_Witness ==
    \E c \in Calls :
        /\ IsLookup(c)
        /\ tx_val[c].src = "error"
        /\ pc[c] = "done"

\* Slot c's task has registered its sender and has not passed its remove.
TaskRunning(c) == pc[c] \notin {"none", "done"}

\* C2 as stated: every entry add_action registers is eventually removed by
\* its cache-check task.  Stated on finite runs: as long as the task has not
\* done its remove, the task, or the GrpcScheduler forwarding task whose
\* channel it reads, can take a step.
C2_EntryEventuallyRemoved ==
    \A c \in Calls :
        TaskRunning(c) => ENABLED (TaskStep(c) \/ GrpcStep(c))

\* The AC entry for the action digest of call c.
StoredResult(c) == ac[InfoOf(c).unique_qualifier.digest]

\* The AC holds a result for the action of call c and the CAS holds every
\* output file digest and output directory tree digest of it.
CachedAndComplete(c) ==
    /\ StoredResult(c) # NoResult
    /\ RequiredDigests(StoredResult(c)) \subseteq cas

\* C3: when the AC holds an ActionResult for the action digest and the CAS
\* holds all its output digests (and the store reads succeed), the task goes
\* to no other position than the cache-hit ones, the inner scheduler's
\* add_action is not called for the submission, and once the task has sent,
\* the channel holds CompletedFromCache carrying exactly the stored result
\* (unless the caller had dropped its receiver: a send without receivers
\* publishes nothing).
C3_CacheHitPublishesStored ==
    \A c \in Calls :
        (IsLookup(c) /\ CachedAndComplete(c) /\ ~store_err[c]) =>
            /\ pc[c] \in {"get_action_from_store", "validate_outputs_exist",
                          "send_cached", "remove_cached", "done"}
            /\ inner_req[c] = NoReq
            /\ pc[c] \in {"remove_cached", "done"} =>
                \/ tx_val[c] = StateValue("CompletedFromCache", StoredResult(c),
                                          "none", "cache")
                \/ rx[c] = "dropped"

\* C3 witness: a task ended having published CompletedFromCache with a
\* stored result that has output files and an output directory, to a
\* receiver that is still held.
C3_Witness ==
    \E c \in Calls :
        /\ IsLookup(c)
        /\ pc[c] = "done"
        /\ StoredResult(c) = ResultWithOutputs
        /\ tx_val[c].stage = "CompletedFromCache"
        /\ tx_val[c].result = ResultWithOutputs
        /\ rx[c] = "held"
        /\ inner_req[c] = NoReq

\* The AC holds a result for the action of call c and the CAS lacks one of
\* its output digests.
CachedButIncomplete(c) ==
    /\ StoredResult(c) # NoResult
    /\ ~(RequiredDigests(StoredResult(c)) \subseteq cas)

\* C4: when the AC holds an ActionResult whose output file digest or output
\* directory tree digest is absent from the CAS, the cache layer never
\* publishes CompletedFromCache, and the task leaves the lookup only by
\* passing the action to the inner scheduler.
C4_MissingOutputForwards ==
    \A c \in Calls :
        (IsLookup(c) /\ CachedButIncomplete(c)) =>
            /\ pc[c] \notin {"send_cached", "remove_cached"}
            /\ tx_val[c].src # "cache"
            /\ pc[c] \in {"send_error", "forward", "remove", "done"} =>
                    inner_req[c] = [op |-> "add_action", arg |-> InfoOf(c)]

\* C4 witness: the AC entry was read, an output directory's tree is missing
\* from the CAS, and the task is proxying the inner scheduler's states.
C4_Witness ==
    \E c \in Calls :
        /\ IsLookup(c)
        /\ found[c] = ResultWithOutputs
        /\ 11 \notin cas
        /\ ~store_err[c]
        /\ pc[c] = "forward"
        /\ tx_val[c].src = "inner"

\* This step is an add_action call with skip_cache_lookup = true.
SkipCall ==
    /\ ncalls' = ncalls + 1
    /\ req'[NextCall].op = "add_action"
    /\ req'[NextCall].arg.skip_cache_lookup

\* C5: an add_action with skip_cache_lookup = true hands the inner scheduler
\* the ActionInfo it was called with and returns what the inner scheduler
\* returned; it spawns no task (so reads no store), creates and publishes on
\* no channel of its own and leaves the in-flight map as it was.
C5_SkipForwardsUnchanged ==
    [][SkipCall =>
        /\ inner_req'[NextCall] = [op |-> "add_action", arg |-> req'[NextCall].arg]
        /\ ret'[NextCall].kind = inner_ret'[NextCall]
        /\ ret'[NextCall].chan = IF inner_ret'[NextCall] = "Ok" THEN "grpc" ELSE "none"
        /\ UNCHANGED <<pc, found, store_err, cache_check_actions, tx_val>>]_vars

\* C5 witness: a skipping add_action returned the inner scheduler's receiver
\* while the map held an entry for the same key.
C5_Witness ==
    \E c \in Calls :
        /\ IsSkip(c)
        /\ ret[c] = Ret("Ok", "grpc", c)
        /\ cache_check_actions[req[c].arg.unique_qualifier] \notin {0, c}
        /\ pc[c] = "none"

\* C6 as stated: at most one cache-check task is outstanding per hash_key.
C6_OneCheckPerKey ==
    \A k \in HashKeys :
        Cardinality({c \in Calls :
            IsLookup(c) /\ TaskRunning(c) /\ InfoOf(c).unique_qualifier = k}) <= 1

\* This step is a find_existing_action call for key k.
FindCall(k) ==
    /\ ncalls' = ncalls + 1
    /\ req'[NextCall] = [op |-> "find_existing_action", arg |-> k]

\* C7 as stated: find_existing_action for a key in the in-flight map returns
\* a new receiver of the registered sender on which the current stage is
\* still to be observed; for a key not in the map it asks the inner scheduler
\* with the same key and returns its answer.
C7_FindSubscribesOrDelegates ==
    [][\A k \in HashKeys : FindCall(k) =>
        IF cache_check_actions[k] # 0
        THEN /\ ret'[NextCall] = Ret("Some", "cls", cache_check_actions[k])
             /\ rx'[NextCall] = "held"
             /\ rx_unseen'[NextCall]
             /\ tx_val'[cache_check_actions[k]] = tx_val[cache_check_actions[k]]
        ELSE /\ inner_req'[NextCall] = [op |-> "find_existing_action", arg |-> k]
             /\ ret'[NextCall].kind = inner_ret'[NextCall]]_vars

SenderDropped(c) ==
    IF ret[c].chan = "cls" THEN pc[ret[c].slot] = "done"
                           ELSE g_pc[ret[c].slot] = "stopped"

\* C9 as stated: a subscriber that keeps its receiver eventually observes the
\* terminal state, and the terminal state is the last value published before
\* the sender is dropped.  Stated on finite runs: while a held receiver has
\* not observed a terminal stage, the receiver has a value to read or one of
\* the tasks that feed its channel can take a step; and a held receiver whose
\* sender is dropped is on a channel holding a terminal stage.
C9_SubscriberSeesTerminal ==
    \A c \in Calls :
        rx[c] = "held" =>
            /\ ~IsTerminal(rx_obs[c]) =>
                    ENABLED (\/ ClientObserve(c)
                             \/ TaskStep(ret[c].slot)
                             \/ GrpcStep(ret[c].slot))
            /\ SenderDropped(c) => IsTerminal(ChanStage(c))

\* Key k is in its cache-check window: its sender is registered, its task is
\* running and the receiver add_action returned is held.
InCheckWindow(k) ==
    /\ cache_check_actions[k] # 0
    /\ TaskRunning(cache_check_actions[k])
    /\ rx[cache_check_actions[k]] = "held"

\* C10 as stated: a find_existing_action on a key in its cache-check window
\* gives a second subscription to the channel of the add_action, and from
\* then on the two receivers observe the same stages: whenever both have
\* read the channel's latest value they have observed the same stage.
C10_BisimilarSubscriptions ==
    /\ [][\A k \in HashKeys : (FindCall(k) /\ InCheckWindow(k)) =>
            /\ ret'[NextCall] = Ret("Some", "cls", cache_check_actions[k])
            /\ rx'[NextCall] = "held"]_vars
    /\ [](\A c1, c2 \in Calls :
            (/\ rx[c1] = "held" /\ rx[c2] = "held"
             /\ ret[c1].chan = "cls" /\ ret[c2] = ret[c1]
             /\ ~rx_unseen[c1] /\ ~rx_unseen[c2]) => rx_obs[c1] = rx_obs[c2])

\* The inner scheduler's add_action returned an error to the task of call c.
InnerAddFailed(c) == IsLookup(c) /\ inner_ret[c] \in GrpcErrors

\* C11: when the lookup misses and the inner scheduler's add_action returns
\* an error, add_action has already returned Ok with the subscription; the
\* task does not proxy; its send publishes Error(err, ActionResult::default())
\* with that error to a held receiver, and only after the send does its
\* remove take the hash_key out of the in-flight map.
C11_InnerErrorPublishedThenRemoved ==
    /\ [](\A c \in Calls : InnerAddFailed(c) =>
            /\ ret[c] = Ret("Ok", "cls", c)
            /\ pc[c] \in {"send_error", "remove", "done"}
            /\ pc[c] \in {"remove", "done"} =>
                \/ tx_val[c] = StateValue("Error", DefaultResult, inner_ret[c], "error")
                \/ rx[c] = "dropped")
    /\ [][\A c \in Calls : InnerAddFailed(c) =>
            /\ (pc[c] = "send_error" /\ pc'[c] # "send_error") =>
                    /\ pc'[c] = "remove"
                    /\ rx[c] = "held" =>
                        /\ rx_unseen'[c]
                        /\ tx_val'[c].stage = "Error"
                        /\ tx_val'[c].err = inner_ret[c]
                        /\ tx_val'[c].result = DefaultResult
            /\ (pc[c] = "remove" /\ pc'[c] = "done") =>
                    cache_check_actions'[InfoOf(c).unique_qualifier] = 0]_vars

\* C11 witness: the AC had no entry, the inner add_action failed, the held
\* receiver's channel carries the Error and the task has removed the key.
C11_Witness ==
    \E c \in Calls :
        /\ InnerAddFailed(c)
        /\ found[c] = NoResult
        /\ pc[c] = "done"
        /\ rx[c] = "held"
        /\ tx_val[c] = StateValue("Error", DefaultResult, inner_ret[c], "error")
        /\ cache_check_actions[InfoOf(c).unique_qualifier] = 0

\* ============================================================ the worker
\* RunningActionsManagerImpl and RunningActionImpl
\* (src/cas/worker/running_actions_manager.rs).  The caller of an action
\* keeps a strong reference to it and makes one call on it at a time.

\* const EXIT_CODE_FOR_SIGNAL.
EXIT_CODE_FOR_SIGNAL == 9

\* Code of the error err_tip makes of an Option that is None.
NoneErrTipCode == "FailedPrecondition"

\* Result::merge of the two errors of cleanup: one error carrying both.
MergeErrors(code, causes, other_causes) == [code |-> code, causes |-> causes \cup other_causes]

\* The call on action a returns r and the caller is free for its next call.
WorkerReturn(a, r) ==
    /\ w_ret' = r
    /\ ra_pc' = [ra_pc EXCEPT ![a] = "idle"]

\* A call on the manager or on an action begins.
WorkerCall == w_calls < MaxWorkerCalls /\ w_calls' = w_calls + 1

\* The action has taken a step of its lifecycle.
Note(a, event) == ra_hist' = [ra_hist EXCEPT ![a] = @ \cup {event}]

\* create_and_add_action up to make_work_directory (lines 818-827):
\* fs::create_dir fails when the directory of the action id exists.
CreateMakeDir(a) ==
    /\ ra_pc[a] = "none"
    /\ WorkerCall
    /\ \E id \in ActionIds, io_ok \in BOOLEAN :
        IF io_ok /\ id \notin work_dirs
        THEN /\ work_dirs' = work_dirs \cup {id}
             /\ ra_id' = [ra_id EXCEPT ![a] = id]
             /\ kill_channel_rx' = [kill_channel_rx EXCEPT ![a] = TRUE]
             /\ kill_channel' = [kill_channel EXCEPT ![a] = "open"]
             /\ ra_pc' = [ra_pc EXCEPT ![a] = "insert"]
             /\ UNCHANGED w_ret
        ELSE /\ w_ret' = ErrRet(a, "create_and_add_action", "Internal", {"create_dir"})
             /\ UNCHANGED <<work_dirs, ra_id, kill_channel_rx, kill_channel, ra_pc>>
    /\ UNCHANGED <<workerFrame, running_actions, command_proto, execution_result,
                   ra_action_result, did_cleanup, child, start_kills,
                   remove_dir_result, ra_hist>>

\* create_and_add_action, lines 828-832: the insert under the action id.
CreateInsert(a) ==
    /\ ra_pc[a] = "insert"
    /\ running_actions' = [running_actions EXCEPT ![ra_id[a]] = a]
    /\ WorkerReturn(a, OkRet(a, "create_and_add_action"))
    /\ UNCHANGED <<workerFrame, w_calls, work_dirs, ra_id, command_proto, kill_channel_rx,
                   execution_result, ra_action_result, did_cleanup, processVars,
                   remove_dir_result, ra_hist>>

\* prepare_action (lines 418-462): the Command is fetched and decoded, the
\* inputs are downloaded, and on success the Command is stored in the state.
PrepareAction(a) ==
    /\ ra_pc[a] = "idle"
    /\ WorkerCall
    /\ \E outcome \in {"Err", "Some", "SomeNoArguments"} :
        IF outcome = "Err"
        THEN /\ WorkerReturn(a, ErrRet(a, "prepare_action", "Internal", {"download"}))
             /\ UNCHANGED <<command_proto, ra_hist>>
        ELSE /\ command_proto' = [command_proto EXCEPT ![a] = outcome]
             /\ Note(a, "prepared")
             /\ WorkerReturn(a, OkRet(a, "prepare_action"))
    /\ UNCHANGED <<workerFrame, managerVars, ra_id, kill_channel_rx, execution_result,
                   ra_action_result, did_cleanup, processVars, remove_dir_result>>

\* execute, lines 465-509: the two take()s of the state, left to right, each
\* returning early on None; the argument check; the spawn of the child.  A
\* kill receiver taken out of the state lives in the call and is dropped with
\* it when the call returns.
ExecuteStart(a) ==
    /\ ra_pc[a] = "idle"
    /\ WorkerCall
    /\ IF command_proto[a] = "None"
       THEN /\ WorkerReturn(a, ErrRet(a, "execute", NoneErrTipCode, {"command_proto"}))
            /\ UNCHANGED <<command_proto, kill_channel_rx, kill_channel, child, ra_hist>>
       ELSE /\ command_proto' = [command_proto EXCEPT ![a] = "None"]
            /\ IF ~kill_channel_rx[a]
               THEN /\ WorkerReturn(a, ErrRet(a, "execute", NoneErrTipCode,
                                              {"kill_channel_rx"}))
                    /\ UNCHANGED <<kill_channel_rx, kill_channel, child, ra_hist>>
               ELSE /\ kill_channel_rx' = [kill_channel_rx EXCEPT ![a] = FALSE]
                    /\ Note(a, "execute_entered")
                    /\ IF command_proto[a] = "SomeNoArguments"
                       THEN /\ WorkerReturn(a, ErrRet(a, "execute", "InvalidArgument",
                                                      {"arguments"}))
                            /\ kill_channel' = [kill_channel EXCEPT ![a] = "closed"]
                            /\ UNCHANGED child
                       ELSE \E spawn_ok \in BOOLEAN :
                            IF spawn_ok
                            THEN /\ child' = [child EXCEPT ![a] = "running"]
                                 /\ ra_pc' = [ra_pc EXCEPT ![a] = "select"]
                                 /\ UNCHANGED <<kill_channel, w_ret>>
                            ELSE /\ WorkerReturn(a, ErrRet(a, "execute", "Internal",
                                                           {"spawn"}))
                                 /\ kill_channel' = [kill_channel EXCEPT ![a] = "closed"]
                                 /\ UNCHANGED child
    /\ UNCHANGED <<workerFrame, managerVars, ra_id, execution_result, ra_action_result,
                   did_cleanup, start_kills, remove_dir_result>>

\* The child process ends: by itself with an exit code, or by a signal.
ChildEnds(a) ==
    /\ child[a] = "running"
    /\ \E how \in {"exited", "signalled"} : child' = [child EXCEPT ![a] = how]
    /\ UNCHANGED <<workerFrame, w_calls, managerVars, actionVars, kill_channel, start_kills,
                   remove_dir_result, ra_hist, w_ret>>

\* A kill is sent on the action's one-shot channel (the sender of lines
\* 383-393).
KillSend(a) ==
    /\ kill_channel[a] = "open"
    /\ kill_channel' = [kill_channel EXCEPT ![a] = "sent"]
    /\ UNCHANGED <<workerFrame, w_calls, managerVars, actionVars, child, start_kills,
                   remove_dir_result, ra_hist, w_ret>>

\* execute, lines 543-547: the select takes the kill branch; the receiver
\* has completed, start_kill is issued and the loop goes round.
ExecuteKill(a) ==
    /\ ra_pc[a] = "select"
    /\ kill_channel[a] = "sent"
    /\ kill_channel' = [kill_channel EXCEPT ![a] = "received"]
    /\ start_kills' = [start_kills EXCEPT ![a] = @ + 1]
    /\ UNCHANGED <<workerFrame, w_calls, managerVars, actionVars, child, remove_dir_result,
                   ra_hist, w_ret>>

\* execute, lines 525-543: a later turn of the loop polls the kill receiver
\* again.  A oneshot::Receiver that has yielded its value panics when polled
\* ("called after complete"); the select reaches it unless it finds the
\* child's wait ready first.
ExecuteRepoll(a) ==
    /\ ra_pc[a] = "select"
    /\ kill_channel[a] = "received"
    /\ ra_pc' = [ra_pc EXCEPT ![a] = "panicked"]
    /\ UNCHANGED <<workerFrame, w_calls, managerVars, ra_id, command_proto, kill_channel_rx,
                   execution_result, ra_action_result, did_cleanup, processVars,
                   remove_dir_result, ra_hist, w_ret>>

\* ExecuteWait that puts the kill receiver back into the state together with
\* the Command.
ExecuteWait_RestoresReceiver(a) ==
    /\ ra_pc[a] = "select"
    /\ child[a] \in {"exited", "signalled"}
    /\ child' = [child EXCEPT ![a] = "reaped"]
    /\ kill_channel' = [kill_channel EXCEPT ![a] = "closed"]
    /\ \E drained \in BOOLEAN :
        IF drained
        THEN /\ command_proto' = [command_proto EXCEPT ![a] = "Some"]
             /\ kill_channel_rx' = [kill_channel_rx EXCEPT ![a] = TRUE]
             /\ execution_result' = [execution_result EXCEPT ![a] =
                    [exit_code |-> IF child[a] = "exited" THEN 0
                                   ELSE EXIT_CODE_FOR_SIGNAL]]
             /\ Note(a, "executed")
             /\ WorkerReturn(a, OkRet(a, "execute"))
        ELSE /\ WorkerReturn(a, ErrRet(a, "execute", "Internal", {"stdout"}))
             /\ UNCHANGED <<command_proto, kill_channel_rx, execution_result, ra_hist>>
    /\ UNCHANGED <<workerFrame, w_calls, managerVars, ra_id, ra_action_result,
                   did_cleanup, start_kills, remove_dir_result>>

\* execute, lines 527-542: the select takes the wait branch; stdout and
\* stderr are drained, the Command goes back into the state and the
\* execution result is stored with exit_status.code() or, for a process
\* ended by a signal, EXIT_CODE_FOR_SIGNAL.
ExecuteWait(a) ==
    /\ ra_pc[a] = "select"
    /\ child[a] \in {"exited", "signalled"}
    /\ child' = [child EXCEPT ![a] = "reaped"]
    /\ kill_channel' = [kill_channel EXCEPT ![a] = "closed"]
    /\ \E drained \in BOOLEAN :
        IF drained
        THEN /\ command_proto' = [command_proto EXCEPT ![a] = "Some"]
             /\ execution_result' = [execution_result EXCEPT ![a] =
                    [exit_code |-> IF child[a] = "exited" THEN 0
                                   ELSE EXIT_CODE_FOR_SIGNAL]]
             /\ Note(a, "executed")
             /\ WorkerReturn(a, OkRet(a, "execute"))
        ELSE /\ WorkerReturn(a, ErrRet(a, "execute", "Internal", {"stdout"}))
             /\ UNCHANGED <<command_proto, execution_result, ra_hist>>
    /\ UNCHANGED <<workerFrame, w_calls, managerVars, ra_id, kill_channel_rx, ra_action_result,
                   did_cleanup, start_kills, remove_dir_result>>

\* upload_results (lines 553-708): the two take()s of the state, left to
\* right, each returning early on None; the uploads; the ActionResult stored
\* with the exit code of the execution result.
UploadResults(a) ==
    /\ ra_pc[a] = "idle"
    /\ WorkerCall
    /\ IF command_proto[a] = "None"
       THEN /\ WorkerReturn(a, ErrRet(a, "upload_results", NoneErrTipCode,
                                      {"command_proto"}))
            /\ UNCHANGED <<command_proto, execution_result, ra_action_result, ra_hist>>
       ELSE /\ command_proto' = [command_proto EXCEPT ![a] = "None"]
            /\ IF execution_result[a] = NoExecutionResult
               THEN /\ WorkerReturn(a, ErrRet(a, "upload_results", NoneErrTipCode,
                                              {"execution_result"}))
                    /\ UNCHANGED <<execution_result, ra_action_result, ra_hist>>
               ELSE /\ execution_result' =
                            [execution_result EXCEPT ![a] = NoExecutionResult]
                    /\ Note(a, "upload_entered")
                    /\ \E uploaded \in BOOLEAN :
                        IF uploaded
                        THEN /\ ra_action_result' = [ra_action_result EXCEPT ![a] =
                                    [exit_code |-> execution_result[a].exit_code]]
                             /\ WorkerReturn(a, OkRet(a, "upload_results"))
                        ELSE /\ WorkerReturn(a, ErrRet(a, "upload_results", "Internal",
                                                       {"upload"}))
                             /\ UNCHANGED ra_action_result
    /\ UNCHANGED <<workerFrame, managerVars, ra_id, kill_channel_rx, did_cleanup,
                   processVars, remove_dir_result>>

\* CleanupRemoveDir that returns the error of remove_dir_all at once (a `?`
\* on the removal), before did_cleanup is set and the action deregistered.
CleanupRemoveDir_ReturnsOnError(a) ==
    /\ ra_pc[a] = "idle"
    /\ WorkerCall
    /\ Note(a, "cleanup")
    /\ \E io_ok \in BOOLEAN :
        IF io_ok /\ ra_id[a] \in work_dirs
        THEN /\ work_dirs' = work_dirs \ {ra_id[a]}
             /\ remove_dir_result' = [remove_dir_result EXCEPT ![a] = "Ok"]
             /\ did_cleanup' = [did_cleanup EXCEPT ![a] = TRUE]
             /\ ra_pc' = [ra_pc EXCEPT ![a] = "cleanup_action"]
             /\ UNCHANGED w_ret
        ELSE /\ WorkerReturn(a, ErrRet(a, "cleanup", "Internal", {"remove_dir"}))
             /\ UNCHANGED <<work_dirs, remove_dir_result, did_cleanup>>
    /\ UNCHANGED <<workerFrame, running_actions, ra_id, command_proto, kill_channel_rx,
                   execution_result, ra_action_result, processVars>>

\* cleanup, lines 712-715: remove_dir_all on the work directory, which fails
\* when the directory is gone or on an I/O error; then did_cleanup is set.
CleanupRemoveDir(a) ==
    /\ ra_pc[a] = "idle"
    /\ WorkerCall
    /\ \E io_ok \in BOOLEAN :
        LET removed == io_ok /\ ra_id[a] \in work_dirs
        IN  /\ work_dirs' = IF removed THEN work_dirs \ {ra_id[a]} ELSE work_dirs
            /\ remove_dir_result' =
                    [remove_dir_result EXCEPT ![a] = IF removed THEN "Ok" ELSE "Err"]
    /\ did_cleanup' = [did_cleanup EXCEPT ![a] = TRUE]
    /\ Note(a, "cleanup")
    /\ ra_pc' = [ra_pc EXCEPT ![a] = "cleanup_action"]
    /\ UNCHANGED <<workerFrame, running_actions, ra_id, command_proto, kill_channel_rx,
                   execution_result, ra_action_result, processVars, w_ret>>

\* cleanup_action (lines 797-806): removes the entry of the action id, an
\* error when there is none.
cleanup_action(map, action_id) ==
    [ok |-> map[action_id] # 0, map |-> [map EXCEPT ![action_id] = 0]]

\* CleanupAction that returns the error of cleanup_action as it is, without
\* merging the result of the removal into it.
CleanupAction_DropsRemovalError(a) ==
    /\ ra_pc[a] = "cleanup_action"
    /\ LET dereg == cleanup_action(running_actions, ra_id[a])
           rm_causes == IF remove_dir_result[a] = "Err" THEN {"remove_dir"} ELSE {}
       IN  /\ running_actions' = dereg.map
           /\ IF ~dereg.ok
              THEN WorkerReturn(a, ErrRet(a, "cleanup", NoneErrTipCode, {"cleanup_action"}))
              ELSE IF remove_dir_result[a] = "Err"
                   THEN WorkerReturn(a, ErrRet(a, "cleanup", "Internal", rm_causes))
                   ELSE WorkerReturn(a, OkRet(a, "cleanup"))
    /\ remove_dir_result' = [remove_dir_result EXCEPT ![a] = "none"]
    /\ UNCHANGED <<workerFrame, w_calls, work_dirs, ra_id, command_proto, kill_channel_rx,
                   execution_result, ra_action_result, did_cleanup, processVars, ra_hist>>

\* cleanup, lines 716-719: cleanup_action, and the result: its error merged
\* with the one of the removal, else the result of the removal.
CleanupAction(a) ==
    /\ ra_pc[a] = "cleanup_action"
    /\ LET dereg == cleanup_action(running_actions, ra_id[a])
           rm_causes == IF remove_dir_result[a] = "Err" THEN {"remove_dir"} ELSE {}
       IN  /\ running_actions' = dereg.map
           /\ IF ~dereg.ok
              THEN LET e == MergeErrors(NoneErrTipCode, {"cleanup_action"}, rm_causes)
                   IN  WorkerReturn(a, ErrRet(a, "cleanup", e.code, e.causes))
              ELSE IF remove_dir_result[a] = "Err"
                   THEN WorkerReturn(a, ErrRet(a, "cleanup", "Internal", rm_causes))
                   ELSE WorkerReturn(a, OkRet(a, "cleanup"))
    /\ remove_dir_result' = [remove_dir_result EXCEPT ![a] = "none"]
    /\ UNCHANGED <<workerFrame, w_calls, work_dirs, ra_id, command_proto, kill_channel_rx,
                   execution_result, ra_action_result, did_cleanup, processVars, ra_hist>>

\* DropAction without the assertion: the object is freed whatever
\* did_cleanup says.
DropAction_NoAssert(a) ==
    /\ ra_pc[a] = "idle"
    /\ ra_pc' = [ra_pc EXCEPT ![a] = "dropped"]
    /\ UNCHANGED <<workerFrame, w_calls, managerVars, ra_id, command_proto, kill_channel_rx,
                   execution_result, ra_action_result, did_cleanup, processVars,
                   remove_dir_result, ra_hist, w_ret>>

\* impl Drop (lines 402-409): the last strong reference goes; the assertion
\* on did_cleanup fails or the object is freed.
DropAction(a) ==
    /\ ra_pc[a] = "idle"
    /\ ra_pc' = [ra_pc EXCEPT ![a] = IF did_cleanup[a] THEN "dropped" ELSE "aborted"]
    /\ UNCHANGED <<workerFrame, w_calls, managerVars, ra_id, command_proto, kill_channel_rx,
                   execution_result, ra_action_result, did_cleanup, processVars,
                   remove_dir_result, ra_hist, w_ret>>

\* The worker: calls on the manager and on its actions, the child processes
\* and the kill channel.
NextWorker ==
    \/ \E a \in Actions : CreateMakeDir(a)
    \/ \E a \in Actions : CreateInsert(a)
    \/ \E a \in Actions : PrepareAction(a)
    \/ \E a \in Actions : ExecuteStart(a)
    \/ \E a \in Actions : ChildEnds(a)
    \/ \E a \in Actions : KillSend(a)
    \/ \E a \in Actions : ExecuteKill(a)
    \/ \E a \in Actions : ExecuteRepoll(a)
    \/ \E a \in Actions : ExecuteWait(a)
    \/ \E a \in Actions : UploadResults(a)
    \/ \E a \in Actions : CleanupRemoveDir(a)
    \/ \E a \in Actions : CleanupAction(a)
    \/ \E a \in Actions : DropAction(a)

InitWorker == IdleStores /\ ClsInit /\ WorkerInit /\ UploadIdle /\ OthersIdle

SpecWorker == InitWorker /\ [][NextWorker]_vars

\* ------------------------------------------------- claims on the worker
\* The call op on action a returned an error with the given code.
FailedWith(a, op, code) ==
    /\ w_ret'.a = a /\ w_ret'.op = op
    /\ ~w_ret'.ok
    /\ w_ret'.code = code
    /\ ra_pc'[a] = "idle"

C13_CleanupAlwaysFinalizes ==
    /\ [](\A a \in Actions :
            /\ (ra_pc[a] = "idle" /\ w_calls < MaxWorkerCalls)
                    => ENABLED CleanupRemoveDir(a)
            /\ ra_pc[a] = "cleanup_action"
                    => did_cleanup[a] /\ ENABLED CleanupAction(a))
    /\ [][\A a \in Actions :
            /\ CleanupRemoveDir(a) =>
                    /\ did_cleanup'[a]
                    /\ ra_pc'[a] = "cleanup_action"
                    /\ remove_dir_result'[a] \in {"Ok", "Err"}
                    /\ remove_dir_result'[a] = "Ok" => ra_id[a] \notin work_dirs'
            /\ CleanupAction(a) =>
                    /\ w_ret'.a = a /\ w_ret'.op = "cleanup"
                    /\ did_cleanup'[a]
                    /\ running_actions'[ra_id[a]] = 0]_vars

\* C13 witness: cleanup has returned on an action whose execute had failed;
\* the removal of the work directory failed, and still did_cleanup is set and
\* the action id is out of the map.
C13_Witness ==
    \E a \in Actions :
        /\ "execute_entered" \in ra_hist[a]
        /\ "executed" \notin ra_hist[a]
        /\ w_ret = ErrRet(a, "cleanup", "Internal", {"remove_dir"})
        /\ did_cleanup[a]
        /\ ra_id[a] \in work_dirs
        /\ running_actions[ra_id[a]] = 0

\* C14: cleanup returns Ok exactly when the removal of the work directory
\* and the deregistration both succeeded; when one of them failed the error
\* returned carries that failure alone, and when both failed it is one error
\* carrying both.
C14_CleanupReportsEveryFailure ==
    [][\A a \in Actions : CleanupAction(a) =>
        LET removed == remove_dir_result[a] = "Ok"
            deregistered == running_actions[ra_id[a]] # 0
        IN  /\ w_ret'.a = a /\ w_ret'.op = "cleanup"
            /\ w_ret'.ok <=> (removed /\ deregistered)
            /\ w_ret'.causes = (IF removed THEN {} ELSE {"remove_dir"})
                        \cup (IF deregistered THEN {} ELSE {"cleanup_action"})]_vars

\* C14 witness: a cleanup has returned one error carrying the failure of the
\* removal and the failure of the deregistration.
C14_Witness ==
    \E a \in Actions :
        /\ w_ret.a = a /\ w_ret.op = "cleanup"
        /\ ~w_ret.ok
        /\ w_ret.causes = {"remove_dir", "cleanup_action"}
        /\ ra_pc[a] = "idle"

\* C15: dropping a RunningActionImpl fails the assertion of its Drop exactly
\* when cleanup was never called on it; after a cleanup, whether it returned
\* Ok or an error, the drop frees the object.
C15_DropAbortsWithoutCleanup ==
    [][\A a \in Actions : DropAction(a) =>
        /\ ra_pc'[a] \in {"aborted", "dropped"}
        /\ ra_pc'[a] = "aborted" <=> "cleanup" \notin ra_hist[a]]_vars

\* C15 witness: one action was dropped after a cleanup that returned an
\* error, another was dropped without cleanup and hit the assertion.
C15_Witness ==
    \E a, b \in Actions :
        /\ ra_pc[a] = "dropped"
        /\ w_ret.a = a /\ w_ret.op = "cleanup" /\ ~w_ret.ok
        /\ ra_pc[b] = "aborted"
        /\ "prepared" \in ra_hist[b]

\* C16 as stated: when a kill is delivered on the one-shot channel while
\* execute waits for the child, execute issues start_kill once and keeps
\* waiting: it does not panic, and when the child has ended by the signal and
\* the output is drained it returns Ok with exit_code 9, leaving the caller
\* free to call cleanup.
C16_KillThenExitCodeNine ==
    /\ [](\A a \in Actions :
            /\ start_kills[a] <= 1
            /\ kill_channel[a] = "received" =>
                    /\ start_kills[a] = 1
                    /\ ra_pc[a] = "select")
    /\ [][\A a \in Actions : (ra_pc[a] = "select" /\ start_kills[a] = 1) =>
            /\ ra_pc'[a] \in {"select", "idle"}
            /\ (ra_pc'[a] = "idle" /\ w_ret'.ok /\ child[a] = "signalled") =>
                    execution_result'[a] = [exit_code |-> 9]]_vars

\* ------------------------------------------------- upload_results outputs
\* Output paths stand for strings; the number is the rank of the string in
\* String's ordering, which is the order sort_unstable_by compares with.
OutputPaths == {1, 2, 3}
OutputTypes == {"none", "file", "directory", "symlink"}

FileInfo(entry) == [kind |-> "FileInfo", name_or_path |-> entry]
DirectoryInfo(entry) == [kind |-> "DirectoryInfo", path |-> entry]
SymlinkInfo(entry) == [kind |-> "SymlinkInfo", name_or_path |-> entry]

\* The key each of the three sorts compares.
SortKey(info) == IF info.kind = "DirectoryInfo" THEN info.path ELSE info.name_or_path

RECURSIVE InsertSorted(_, _)
InsertSorted(sorted, info) ==
    IF sorted = <<>> THEN <<info>>
    ELSE IF SortKey(info) <= SortKey(Head(sorted)) THEN <<info>> \o sorted
    ELSE <<Head(sorted)>> \o InsertSorted(Tail(sorted), info)

\* vec.sort_unstable_by(|a, b| key(a).cmp(&key(b)))
RECURSIVE sort_unstable_by(_)
sort_unstable_by(vec) ==
    IF vec = <<>> THEN <<>>
    ELSE InsertSorted(sort_unstable_by(Tail(vec)), Head(vec))

\* The future of output_paths[i] completes with Ok: its OutputType is pushed
\* onto the vector of its kind, or ignored when the path does not exist.
OutputPathCompletes(i) ==
    /\ up_pc = "collect"
    /\ i \in up_pending
    /\ up_pending' = up_pending \ {i}
    /\ LET entry == up_paths[i]
           type == up_fs[entry]
       IN /\ output_files' = IF type = "file"
                                 THEN Append(output_files, FileInfo(entry))
                                 ELSE output_files
          /\ output_folders' = IF type = "directory"
                                   THEN Append(output_folders, DirectoryInfo(entry))
                                   ELSE output_folders
          /\ output_symlinks' = IF type = "symlink"
                                    THEN Append(output_symlinks, SymlinkInfo(entry))
                                    ELSE output_symlinks
    /\ up_completed' = Append(up_completed, i)
    /\ UNCHANGED <<uploadFrame, up_fs, up_paths, up_pc>>

\* The future of output_paths[i] completes with Err: try_next()? returns it
\* and no ActionResult is recorded.
OutputPathFails(i) ==
    /\ up_pc = "collect"
    /\ i \in up_pending
    /\ up_pc' = "failed"
    /\ up_pending' = {}
    /\ UNCHANGED <<uploadFrame, up_fs, up_paths, output_files, output_folders,
                   output_symlinks, up_completed>>

\* Every future has completed: only two of the three vectors are sorted.
SortAndRecord_FoldersUnsorted ==
    /\ up_pc = "collect"
    /\ up_pending = {}
    /\ output_files' = sort_unstable_by(output_files)
    /\ output_folders' = output_folders
    /\ output_symlinks' = sort_unstable_by(output_symlinks)
    /\ up_pc' = "done"
    /\ UNCHANGED <<uploadFrame, up_fs, up_paths, up_pending, up_completed>>

\* Every future has completed: the three vectors are sorted and moved into
\* state.action_result.
SortAndRecord ==
    /\ up_pc = "collect"
    /\ up_pending = {}
    /\ output_files' = sort_unstable_by(output_files)
    /\ output_folders' = sort_unstable_by(output_folders)
    /\ output_symlinks' = sort_unstable_by(output_symlinks)
    /\ up_pc' = "done"
    /\ UNCHANGED <<uploadFrame, up_fs, up_paths, up_pending, up_completed>>

NextUpload ==
    \/ \E i \in 1..MaxOutputs : OutputPathCompletes(i)
    \/ \E i \in 1..MaxOutputs : OutputPathFails(i)
    \/ SortAndRecord

\* Every work directory content and every list of declared output paths.
InitUpload ==
    /\ IdleStores
    /\ ClsInit
    /\ WorkerInit
    /\ OthersIdle
    /\ up_fs \in [OutputPaths -> OutputTypes]
    /\ \E n \in 0..MaxOutputs : up_paths \in [1..n -> OutputPaths]
    /\ up_pending = DOMAIN up_paths
    /\ output_files = <<>>
    /\ output_folders = <<>>
    /\ output_symlinks = <<>>
    /\ up_completed = <<>>
    /\ up_pc = "collect"

SpecUpload == InitUpload /\ [][NextUpload]_vars

IsSortedByKey(vec) ==
    \A i, j \in DOMAIN vec : i < j => SortKey(vec[i]) <= SortKey(vec[j])

\* How many of the declared output paths are `entry` and hold a `type`.
Declared(type, entry) ==
    Cardinality({i \in DOMAIN up_paths : up_paths[i] = entry /\ up_fs[entry] = type})

Listed(vec, entry) ==
    Cardinality({i \in DOMAIN vec : SortKey(vec[i]) = entry})

\* C17: the ActionResult recorded by upload_results lists output_files,
\* output_folders and output_symlinks each in ascending order of path, and
\* each holds exactly the declared outputs of its kind, whatever the declared
\* output paths and the order in which the per-path uploads completed.
C17_OutputsRecordedSorted ==
    up_pc = "done" =>
        /\ IsSortedByKey(output_files)
        /\ IsSortedByKey(output_folders)
        /\ IsSortedByKey(output_symlinks)
        /\ \A entry \in OutputPaths :
              /\ Listed(output_files, entry) = Declared("file", entry)
              /\ Listed(output_folders, entry) = Declared("directory", entry)
              /\ Listed(output_symlinks, entry) = Declared("symlink", entry)

\* Two folders and a file were recorded although the upload of the folder
\* with the greater path completed first.
C17_Witness ==
    /\ up_pc = "done"
    /\ \E m, n \in DOMAIN up_completed :
          /\ m < n
          /\ up_paths[up_completed[m]] > up_paths[up_completed[n]]
          /\ up_fs[up_paths[up_completed[m]]] = "directory"
          /\ up_fs[up_paths[up_completed[n]]] = "directory"
    /\ Len(output_files) >= 1

\* ------------------------------------------------ platform properties
PropertyKeys == {"name", "other"}
\* Raw property values: two that are no decimal u64 and one that is.
PropertyStrings == {"value", "replaced", "3"}
PropertyTypes == {"Exact", "Minimum", "Priority"}

\* A PlatformPropertyValue: the variant with its String payload in `value`
\* or its u64 payload in `amount`, the field the variant lacks left blank.
Exact(s) == [type |-> "Exact", value |-> s, amount |-> 0]
Minimum(n) == [type |-> "Minimum", value |-> "", amount |-> n]
Priority(s) == [type |-> "Priority", value |-> s, amount |-> 0]
Unknown(s) == [type |-> "Unknown", value |-> s, amount |-> 0]

\* value.parse::<u64>(): the number, or -1 for a string that is no decimal u64.
ParseU64(value) == IF value = "3" THEN 3 ELSE -1

MakePropErr == [type |-> "Err", value |-> "InvalidArgument", amount |-> 0]

\* PlatformPropertyManager::make_prop_value with every key typed Unknown.
make_prop_value_Untyped(known, key, value) ==
    IF key \in DOMAIN known THEN Unknown(value) ELSE MakePropErr

\* PlatformPropertyManager::make_prop_value: the value typed as the
\* known-properties table says, or an error for an unknown key or a
\* Minimum that does not parse.
make_prop_value(known, key, value) ==
    IF key \in DOMAIN known
    THEN CASE known[key] = "Minimum" ->
                  IF ParseU64(value) >= 0 THEN Minimum(ParseU64(value)) ELSE MakePropErr
           [] known[key] = "Exact" -> Exact(value)
           [] known[key] = "Priority" -> Priority(value)
    ELSE MakePropErr

\* PartialEq as derived for PlatformPropertyValue: same variant, same payload.
ValueEq(a, b) == a.type = b.type /\ a.value = b.value /\ a.amount = b.amount

\* PlatformPropertyValue::is_satisfied_by with a Priority requirement that
\* only an equal worker value meets.
value_is_satisfied_by_PriorityRestricts(self, worker_value) ==
    IF ValueEq(self, worker_value) THEN TRUE
    ELSE CASE self.type = "Minimum" ->
                  IF worker_value.type = "Minimum"
                  THEN worker_value.amount >= self.amount
                  ELSE FALSE
           [] self.type = "Priority" -> FALSE
           [] self.type \in {"Exact", "Unknown"} -> FALSE

\* PlatformPropertyValue::is_satisfied_by
value_is_satisfied_by(self, worker_value) ==
    IF ValueEq(self, worker_value) THEN TRUE
    ELSE CASE self.type = "Minimum" ->
                  IF worker_value.type = "Minimum"
                  THEN worker_value.amount >= self.amount
                  ELSE FALSE
           [] self.type = "Priority" -> TRUE
           [] self.type \in {"Exact", "Unknown"} -> FALSE

\* PlatformProperties::is_satisfied_by: false at the first required property
\* the worker lacks or does not satisfy, true when the loop runs out.
is_satisfied_by(self, worker) ==
    \A property \in DOMAIN self :
        IF property \in DOMAIN worker
        THEN value_is_satisfied_by(self[property], worker[property])
        ELSE FALSE

PropertyValues ==
    {Exact(s) : s \in {"value", "replaced"}}
        \cup {Minimum(n) : n \in 0..MaxMinimum}
        \cup {Priority(s) : s \in {"value", "replaced"}}
        \cup {Unknown(s) : s \in {"value", "replaced"}}

PropertyMaps == UNION {[keys -> PropertyValues] : keys \in SUBSET PropertyKeys}

\* required.is_satisfied_by(worker_properties) is called and returns.
IsSatisfiedByCall ==
    /\ sat_pc = "call"
    /\ satisfied' = is_satisfied_by(required, worker_properties)
    /\ sat_pc' = "returned"
    /\ UNCHANGED <<satisfyFrame, required, worker_properties>>

NextSatisfy == IsSatisfiedByCall

\* Every pair of property maps.
InitSatisfy ==
    /\ IdleStores
    /\ ClsInit
    /\ WorkerInit
    /\ GetTreeIdle
    /\ RaceIdle
    /\ TreeIdle
    /\ DigestIdle
    /\ FactoryIdle
    /\ PartitionIdle
    /\ GrpcStoreIdle
    /\ UploadIdle
    /\ ModifierIdle
    /\ MemoryInit
    /\ required \in PropertyMaps
    /\ worker_properties \in PropertyMaps
    /\ satisfied = FALSE
    /\ sat_pc = "call"

SpecSatisfy == InitSatisfy /\ [][NextSatisfy]_vars

\* The rule of the required value's type, applied to the worker's value.
PassesTypeRule(check_value, worker_value) ==
    CASE check_value.type = "Exact" ->
             worker_value.type = "Exact" /\ worker_value.value = check_value.value
      [] check_value.type = "Minimum" ->
             worker_value.type = "Minimum" /\ worker_value.amount >= check_value.amount
      [] check_value.type = "Priority" -> TRUE
      [] check_value.type = "Unknown" ->
             worker_value.type = "Unknown" /\ worker_value.value = check_value.value

\* C19: required.is_satisfied_by(worker) is true exactly when every required
\* key exists in the worker's properties and the worker's value passes the
\* rule of the required value's type: Exact(s) needs Exact(s), Minimum(r)
\* needs Minimum(w) with w >= r, Priority is passed by any value, Unknown(s)
\* needs an equal value.
C19_SatisfiedIffEveryRulePasses ==
    sat_pc = "returned" =>
        (satisfied <=>
            \A k \in DOMAIN required :
                /\ k \in DOMAIN worker_properties
                /\ PassesTypeRule(required[k], worker_properties[k]))

\* A call returned true for a Priority requirement met by a worker value of
\* another type and a Minimum requirement met by a larger Minimum.
C19_Witness ==
    /\ sat_pc = "returned"
    /\ satisfied
    /\ DOMAIN required = PropertyKeys
    /\ required["name"] = Priority("value")
    /\ worker_properties["name"].type = "Exact"
    /\ required["other"] = Minimum(1)
    /\ worker_properties["other"] = Minimum(2)

\* ------------------------------------------- PropertyModifierScheduler
Add(name, value) == [op |-> "Add", name |-> name, value |-> value]
Remove(name) == [op |-> "Remove", name |-> name]
PropertyModifications ==
    {Add(k, v) : k \in PropertyKeys, v \in PropertyStrings}
        \cup {Remove(k) : k \in PropertyKeys}

\* HashMap::insert and HashMap::remove on a properties map.
MapInsert(map, key, value) ==
    [k \in DOMAIN map \cup {key} |-> IF k = key THEN value ELSE map[k]]
MapRemove(map, key) == [k \in DOMAIN map \ {key} |-> map[k]]

\* The modifications applied to the properties one after the other, first
\* to last; an Add whose value cannot be made ends the call with the error.
RECURSIVE ApplyModifications(_, _, _)
ApplyModifications(known, mods, properties) ==
    IF mods = <<>> THEN [ok |-> TRUE, properties |-> properties]
    ELSE LET modification == Head(mods)
         IN IF modification.op = "Add"
            THEN LET value == make_prop_value(known, modification.name, modification.value)
                 IN IF value = MakePropErr
                    THEN [ok |-> FALSE, properties |-> properties]
                    ELSE ApplyModifications(known, Tail(mods),
                             MapInsert(properties, modification.name, value))
            ELSE ApplyModifications(known, Tail(mods),
                     MapRemove(properties, modification.name))

\* PropertyModifierScheduler::add_action: the action's properties are
\* modified and the action handed to the inner scheduler, or the call fails
\* and nothing is handed on.
ModifierAddAction ==
    /\ pm_pc = "idle"
    /\ LET applied == ApplyModifications(known_properties, modifications,
                                         platform_properties)
       IN IF applied.ok
          THEN /\ forwarded' = applied.properties
               /\ pm_pc' = "forwarded"
          ELSE /\ forwarded' = forwarded
               /\ pm_pc' = "failed"
    /\ UNCHANGED <<modifierFrame, known_properties, modifications, platform_properties>>

NextModifier == ModifierAddAction

\* Every known-properties table, every list of modifications and every
\* action with properties as From<ProtoPlatform> builds them.
InitModifier ==
    /\ IdleStores
    /\ ClsInit
    /\ WorkerInit
    /\ GetTreeIdle
    /\ RaceIdle
    /\ TreeIdle
    /\ DigestIdle
    /\ FactoryIdle
    /\ PartitionIdle
    /\ GrpcStoreIdle
    /\ UploadIdle
    /\ SatisfyIdle
    /\ MemoryInit
    /\ \E keys \in SUBSET PropertyKeys : known_properties \in [keys -> PropertyTypes]
    /\ \E n \in 0..MaxModifications : modifications \in [1..n -> PropertyModifications]
    /\ \E keys \in SUBSET PropertyKeys :
          platform_properties \in [keys -> {Unknown("value")}]
    /\ forwarded = <<>>
    /\ pm_pc = "idle"

SpecModifier == InitModifier /\ [][NextModifier]_vars

\* The index of the last modification that names the key, 0 when none does.
LastModificationOf(key) ==
    LET touching == {i \in DOMAIN modifications : modifications[i].name = key}
    IN IF touching = {} THEN 0
       ELSE CHOOSE i \in touching : \A j \in touching : j <= i

\* C18: PropertyModifierScheduler applies its modifications in list order
\* before forwarding: for every key the forwarded ActionInfo is decided by
\* the last modification that names it. A last Add(k, v) leaves k with v typed
\* by the inner scheduler's property manager (Exact(v) for an Exact key),
\* replacing any earlier value; a last Remove(k) leaves k absent; a key no
\* modification names is forwarded as it came. So [Add(k,v), Remove(k)]
\* forwards no k and [Remove(k), Add(k,v)] forwards k = Exact(v).
C18_ModificationsAppliedInOrder ==
    pm_pc = "forwarded" =>
        \A k \in PropertyKeys :
            LET last == LastModificationOf(k)
            IN IF last = 0
               THEN /\ (k \in DOMAIN forwarded) = (k \in DOMAIN platform_properties)
                    /\ k \in DOMAIN forwarded => forwarded[k] = platform_properties[k]
               ELSE IF modifications[last].op = "Remove"
               THEN k \notin DOMAIN forwarded
               ELSE /\ k \in DOMAIN forwarded
                    /\ k \in DOMAIN known_properties
                    /\ known_properties[k] = "Exact"
                           => forwarded[k] = Exact(modifications[last].value)
                    /\ known_properties[k] = "Priority"
                           => forwarded[k] = Priority(modifications[last].value)
                    /\ known_properties[k] = "Minimum"
                           => forwarded[k] = Minimum(ParseU64(modifications[last].value))

\* An action that came with name = Unknown("value") was forwarded with
\* name = Exact("replaced") by [Remove(name), Add(name, "replaced")].
C18_Witness ==
    /\ pm_pc = "forwarded"
    /\ modifications = <<Remove("name"), Add("name", "replaced")>>
    /\ "name" \in DOMAIN platform_properties
    /\ forwarded["name"] = Exact("replaced")

\* ---------------------------------------------------------- MemoryStore
StoreDigests == {"d1", "d2"}
ByteValues == {0, 1}
ByteStrings == UNION {[1..n -> ByteValues] : n \in 0..MaxBytes}

\* Option<usize>::None for a length.
None == -1

ExactSize(sz) == [kind |-> "ExactSize", sz |-> sz]
MaxSize(sz) == [kind |-> "MaxSize", sz |-> sz]
\* The size a writer of `bytes` announces: their length, or a maximum that
\* is not below it.
UploadSizeInfos(bytes) ==
    {ExactSize(Len(bytes))} \cup {MaxSize(sz) : sz \in Len(bytes)..MaxBytes}

RECURSIVE Concat(_)
Concat(chunks) ==
    IF chunks = <<>> THEN <<>> ELSE Head(chunks) \o Concat(Tail(chunks))

\* `bytes` from position `from` on, cut into chunks after the positions in
\* `cuts`.
RECURSIVE ChunksFrom(_, _, _)
ChunksFrom(bytes, cuts, from) ==
    IF from > Len(bytes) THEN <<>>
    ELSE LET later == {c \in cuts : c >= from}
             upto == IF later = {} THEN Len(bytes)
                     ELSE CHOOSE c \in later : \A e \in later : c <= e
         IN <<SubSeq(bytes, from, upto)>> \o ChunksFrom(bytes, cuts, upto + 1)

\* The ways a writer can send `bytes` down a byte-stream channel: as chunks,
\* none of them empty.
ChunkingsOf(bytes) ==
    {ChunksFrom(bytes, cuts, 1) : cuts \in SUBSET (1..(Len(bytes) - 1))}

\* DropCloserReadHalf::collect_all_with_size_hint: every chunk up to EOF in
\* one buffer; the hint only sizes the reservation.
collect_all_with_size_hint(chunks, size_hint) == Concat(chunks)

\* DropCloserReadHalf::consume(length): the bytes up to EOF, at most `length`
\* of them when a length is given.
consume(chunks, length) ==
    LET all == Concat(chunks)
    IN IF length = None \/ length >= Len(all) THEN all ELSE SubSeq(all, 1, length)

MsOk(data) == [ok |-> TRUE, code |-> "Ok", data |-> data]
MsErr(code) == [ok |-> FALSE, code |-> code, data |-> <<>>]

\* MemoryStore::update once the reader reached EOF: the buffer is collected,
\* copied into one of its own length when the size given was not its length,
\* and inserted.
UpdatedMap(map, digest, chunks, size_info) ==
    LET max_size == size_info.sz
        collected == collect_all_with_size_hint(chunks, max_size)
        buffer == IF Len(collected) # max_size
                  THEN [i \in 1..Len(collected) |-> collected[i]]
                  ELSE collected
    IN MapInsert(map, digest, buffer)

\* update(digest, reader, size_info) where the writer sends `bytes` in some
\* chunking and then EOF, or is dropped before EOF.
Update(digest, bytes, size_info) ==
    /\ ms_req' = [op |-> "update", digest |-> digest, offset |-> 0, length |-> None]
    /\ \/ \E chunks \in ChunkingsOf(bytes) :
             /\ evicting_map' = UpdatedMap(evicting_map, digest, chunks, size_info)
             /\ ms_updated' = MapInsert(ms_updated, digest,
                                        [bytes |-> bytes, size_info |-> size_info.kind])
             /\ ms_ret' = MsOk(<<>>)
       \/ /\ ms_ret' = MsErr("Internal")
          /\ UNCHANGED <<evicting_map, ms_updated>>
    /\ UNCHANGED memoryFrame

\* update_oneshot(digest, data): data is sent as one chunk unless it is
\* empty, then EOF; update runs with ExactSize(data.len()).
UpdateOneshot(digest, data) ==
    /\ ms_req' = [op |-> "update_oneshot", digest |-> digest, offset |-> 0,
                  length |-> None]
    /\ LET chunks == IF data # <<>> THEN <<data>> ELSE <<>>
       IN evicting_map' = UpdatedMap(evicting_map, digest, chunks, ExactSize(Len(data)))
    /\ ms_updated' = MapInsert(ms_updated, digest,
                               [bytes |-> data, size_info |-> "ExactSize"])
    /\ ms_ret' = MsOk(<<>>)
    /\ UNCHANGED memoryFrame

\* MemoryStore::get_part sending a one-byte slice as nothing.
get_part_chunks_DropsShortSlice(value, offset, length) ==
    LET default_len == Len(value) - offset
        len == IF length = None \/ length > default_len THEN default_len ELSE length
    IN IF len > 1 THEN <<SubSeq(value, offset + 1, offset + len)>> ELSE <<>>

\* MemoryStore::get_part on an entry with offset <= value.len(): the chunks
\* sent before EOF.
get_part_chunks(value, offset, length) ==
    LET default_len == Len(value) - offset
        len == IF length = None \/ length > default_len THEN default_len ELSE length
    IN IF len > 0 THEN <<SubSeq(value, offset + 1, offset + len)>> ELSE <<>>

\* What get_part_unchunked can return when offset > value.len(): the
\* subtraction panics where overflow is checked; where it wraps, the slice
\* panics unless the length asked for is 0 and nothing is sliced.
OffsetPastEnd(length) ==
    IF length = 0 THEN {MsErr("panicked"), MsOk(<<>>)} ELSE {MsErr("panicked")}

\* get_part_unchunked(digest, offset, length): get_part writes into a
\* channel that consume(length) reads; a failed get_part is the result.
GetPartUnchunked(digest, offset, length) ==
    /\ ms_req' = [op |-> "get_part_unchunked", digest |-> digest, offset |-> offset,
                  length |-> length]
    /\ IF digest \notin DOMAIN evicting_map
       THEN ms_ret' = MsErr("NotFound")
       ELSE IF offset > Len(evicting_map[digest])
       THEN ms_ret' \in OffsetPastEnd(length)
       ELSE ms_ret' = MsOk(consume(get_part_chunks(evicting_map[digest], offset, length),
                                   length))
    /\ UNCHANGED <<memoryFrame, evicting_map, ms_updated>>

\* The eviction policy evicts the entry, or remove_entry removes it.
Evict(digest) ==
    /\ digest \in DOMAIN evicting_map
    /\ ms_req' = [op |-> "remove_entry", digest |-> digest, offset |-> 0,
                  length |-> None]
    /\ evicting_map' = MapRemove(evicting_map, digest)
    /\ ms_updated' = MapRemove(ms_updated, digest)
    /\ ms_ret' = MsOk(<<>>)
    /\ UNCHANGED memoryFrame

NextMemory ==
    \/ \E d \in StoreDigests, bytes \in ByteStrings :
          \E size_info \in UploadSizeInfos(bytes) : Update(d, bytes, size_info)
    \/ \E d \in StoreDigests, data \in ByteStrings : UpdateOneshot(d, data)
    \/ \E d \in StoreDigests, offset \in 0..MaxBytes, length \in {None} \cup 0..MaxBytes :
          GetPartUnchunked(d, offset, length)
    \/ \E d \in StoreDigests : Evict(d)

InitMemory ==
    /\ IdleStores
    /\ ClsInit
    /\ WorkerInit
    /\ GetTreeIdle
    /\ RaceIdle
    /\ TreeIdle
    /\ DigestIdle
    /\ FactoryIdle
    /\ PartitionIdle
    /\ GrpcStoreIdle
    /\ UploadIdle
    /\ ModifierIdle
    /\ SatisfyIdle
    /\ MemoryInit

SpecMemory == InitMemory /\ [][NextMemory]_vars

\* C20: on a MemoryStore, once update(d, bytes) has returned Ok and for as
\* long as the entry has not been evicted or removed,
\* get_part_unchunked(d, 0, None) returns exactly bytes, the empty byte
\* string included, whether the update gave ExactSize or MaxSize.
C20_MemoryStoreRoundTrip ==
    \A d \in StoreDigests :
        (/\ ms_req.op = "get_part_unchunked"
         /\ ms_req.digest = d
         /\ ms_req.offset = 0
         /\ ms_req.length = None
         /\ d \in DOMAIN ms_updated)
            => ms_ret = MsOk(ms_updated[d].bytes)

\* The empty byte string written with MaxSize was read back while the other
\* digest held, and still holds, a string of MaxBytes bytes written with
\* ExactSize.
C20_Witness ==
    /\ ms_req = [op |-> "get_part_unchunked", digest |-> "d1", offset |-> 0,
                 length |-> None]
    /\ DOMAIN ms_updated = StoreDigests
    /\ ms_updated["d1"] = [bytes |-> <<>>, size_info |-> "MaxSize"]
    /\ Len(ms_updated["d2"].bytes) = MaxBytes
    /\ ms_updated["d2"].size_info = "ExactSize"
    /\ ms_ret = MsOk(<<>>)

\* ------------------------------------------------------------ GrpcStore
\* A String is the sequence of its pieces: "/" for each slash, and one piece
\* for each run of other characters.
Slash == "/"

\* str::find('/'): the position of the first slash, 0 for None.
find_slash(name) ==
    IF \E i \in DOMAIN name : name[i] = Slash
    THEN CHOOSE i \in DOMAIN name : name[i] = Slash /\ \A j \in 1..(i - 1) : name[j] # Slash
    ELSE 0

\* format!("{}/{}", instance_name, resource_name.get((first_slash_pos + 1)..))
rewrite_resource_name(instance_name, resource_name) ==
    instance_name \o <<Slash>>
        \o SubSeq(resource_name, find_slash(resource_name) + 1, Len(resource_name))

\* The code error_if! fails with.
ErrorIfCode == "InvalidArgument"

GrpcDigests == [hash : {"h1"}, size_bytes : 0..MaxBytes]
\* The blob of a digest, and the encoding of a stored ActionResult.
Blob(n) == [i \in 1..n |-> i]
EncodedActionResult == Blob(MaxBytes)

BlobPath(digest) == <<"blobs", Slash, digest.hash, Slash, ToString(digest.size_bytes)>>
UploadPath(digest) == <<"uploads", Slash, "uuid", Slash>> \o BlobPath(digest)

GsOk(data) == [ok |-> TRUE, code |-> "Ok", data |-> data]
GsErr(code) == [ok |-> FALSE, code |-> code, data |-> <<>>]
NoWriter == [data |-> <<>>, eofs |-> 0]

\* What the upstream answers to one request, transport failures aside. A
\* ByteStream read_limit of 0 asks for everything from read_offset on.
Upstream(request) ==
    CASE request.rpc = "Read" ->
             LET known == {d \in gs_upstream :
                              request.resource_name
                                  = gs_config.instance_name \o <<Slash>> \o BlobPath(d)}
             IN IF known = {} THEN GsErr("NotFound")
                ELSE LET n == (CHOOSE d \in known : TRUE).size_bytes
                         last == IF request.read_limit = 0
                                     \/ request.read_offset + request.read_limit > n
                                 THEN n
                                 ELSE request.read_offset + request.read_limit
                     IN IF request.read_offset > n THEN GsErr("OutOfRange")
                        ELSE GsOk(SubSeq(Blob(n), request.read_offset + 1, last))
      [] request.rpc = "GetActionResult" ->
             IF request.action_digest \in gs_upstream
             THEN GsOk(EncodedActionResult)
             ELSE GsErr("NotFound")
      [] request.rpc \in {"FindMissingBlobs", "find_missing_blobs"} ->
             GsOk([i \in DOMAIN request.blob_digests |->
                      request.blob_digests[i] \notin gs_upstream])
      [] OTHER -> GsOk(<<>>)

\* The answers the attempts of one request get: the upstream's, or
\* Unavailable for the attempts the transport fails.
Answers(request, transient) ==
    [i \in DOMAIN transient |->
        IF transient[i] THEN GsErr("Unavailable") ELSE Upstream(request)]

TransientPatterns == [1..(gs_config.max_retries + 1) -> BOOLEAN]

\* perform_request: every Err of the request is RetryResult::Retry, every Ok
\* ends the retrying; retry.max_retries retries follow the first attempt.
perform_request(request, transient) ==
    LET answers == Answers(request, transient)
        oks == {i \in DOMAIN answers : answers[i].ok}
        n == IF oks = {} THEN Len(answers)
             ELSE CHOOSE i \in oks : \A j \in oks : i <= j
    IN [ret |-> answers[n], sent |-> [i \in 1..n |-> request]]

NotSent(code) == [ret |-> GsErr(code), sent |-> <<>>]

\* GrpcStore::read
read(resource_name, read_offset, read_limit, transient) ==
    IF gs_config.store_type = "AC" THEN NotSent(ErrorIfCode)
    ELSE IF find_slash(resource_name) = 0 THEN NotSent(NoneErrTipCode)
    ELSE perform_request([rpc |-> "Read",
                          resource_name |-> rewrite_resource_name(gs_config.instance_name,
                                                                  resource_name),
                          read_offset |-> read_offset,
                          read_limit |-> read_limit], transient)

\* GrpcStore::get_action_result
get_action_result(action_digest, transient) ==
    perform_request([rpc |-> "GetActionResult",
                     instance_name |-> gs_config.instance_name,
                     action_digest |-> action_digest], transient)

\* GrpcStore::find_missing_blobs, batch_update_blobs, batch_read_blobs and
\* get_tree without the check of the store type.
cas_request_Unchecked(request, transient) ==
    perform_request([request EXCEPT !.instance_name = gs_config.instance_name], transient)

\* GrpcStore::find_missing_blobs, batch_update_blobs, batch_read_blobs and
\* get_tree: refused on an AC store; else the request goes upstream under the
\* store's instance name.
cas_request(request, transient) ==
    IF gs_config.store_type = "AC" THEN NotSent(ErrorIfCode)
    ELSE perform_request([request EXCEPT !.instance_name = gs_config.instance_name],
                         transient)

\* An Option<usize> of the results slice; usize::MAX is kept as a mark.
NoSize == [some |-> FALSE, max |-> FALSE, size |-> 0]
SomeSize(n) == [some |-> TRUE, max |-> FALSE, size |-> n]
SomeUsizeMax == [some |-> TRUE, max |-> TRUE, size |-> 0]

\* has_with_results on an AC store: one GetActionResult per digest, the first
\* Err ends the call; on a CAS store: one FindMissingBlobs for all digests,
\* then None for the missing ones and the digest's size for the others.
HasWithResults(digests) ==
    /\ gs_req.op = "none"
    /\ gs_req' = [op |-> "has_with_results", digests |-> digests]
    /\ gs_writer' = NoWriter
    /\ IF gs_config.store_type = "AC"
       THEN \E transients \in [DOMAIN digests -> TransientPatterns] :
               LET r == [i \in DOMAIN digests |-> get_action_result(digests[i], transients[i])]
                   failed == {i \in DOMAIN digests : ~r[i].ret.ok}
               IN /\ gs_results' = [i \in DOMAIN digests |->
                                       IF r[i].ret.ok THEN SomeUsizeMax ELSE NoSize]
                  /\ gs_sent' = Concat([i \in DOMAIN digests |-> r[i].sent])
                  /\ IF failed = {}
                     THEN gs_ret' = GsOk(<<>>)
                     ELSE \E i \in failed : gs_ret' = GsErr(r[i].ret.code)
       ELSE \E transient \in TransientPatterns :
               LET r == cas_request([rpc |-> "FindMissingBlobs",
                                     instance_name |-> gs_config.instance_name,
                                     blob_digests |-> digests], transient)
               IN /\ gs_sent' = r.sent
                  /\ IF ~r.ret.ok
                     THEN /\ gs_ret' = GsErr(r.ret.code)
                          /\ gs_results' = [i \in DOMAIN digests |-> NoSize]
                     ELSE /\ gs_ret' = GsOk(<<>>)
                          /\ gs_results' = [i \in DOMAIN digests |->
                                               IF r.ret.data[i] THEN NoSize
                                               ELSE SomeSize(digests[i].size_bytes)]
    /\ UNCHANGED <<gstoreFrame, gs_config, gs_upstream>>

\* GrpcStore::query_write_status
query_write_status(resource_name, transient) ==
    IF gs_config.store_type = "AC" THEN NotSent(ErrorIfCode)
    ELSE IF find_slash(resource_name) = 0 THEN NotSent(NoneErrTipCode)
    ELSE perform_request([rpc |-> "QueryWriteStatus",
                          resource_name |-> rewrite_resource_name(gs_config.instance_name,
                                                                  resource_name)],
                         transient)

\* The messages the stream handed to the bytestream client yields: those of
\* the caller's stream, their resource names rewritten, up to its end, its
\* first Err or its first message whose resource name has no slash.
RECURSIVE ForwardedMessages(_)
ForwardedMessages(stream) ==
    IF stream = <<>> THEN <<>>
    ELSE IF Head(stream).kind = "err" \/ find_slash(Head(stream).resource_name) = 0
    THEN <<>>
    ELSE <<rewrite_resource_name(gs_config.instance_name, Head(stream).resource_name)>>
             \o ForwardedMessages(Tail(stream))

\* The Err the caller's stream yields before any message that ends the
\* forwarding, if any: it is parked in `error` and returned after the call.
RECURSIVE StreamError(_)
StreamError(stream) ==
    IF stream = <<>> THEN "none"
    ELSE IF Head(stream).kind = "err" THEN Head(stream).code
    ELSE IF find_slash(Head(stream).resource_name) = 0 THEN "none"
    ELSE StreamError(Tail(stream))

\* GrpcStore::write: refused on an AC store; else the forwarded stream is
\* written once, without retries, and the upstream's answer returned unless
\* the caller's stream failed.
write(stream, answer) ==
    IF gs_config.store_type = "AC" THEN NotSent(ErrorIfCode)
    ELSE LET sent == <<[rpc |-> "Write", messages |-> ForwardedMessages(stream)]>>
         IN IF ~answer.ok THEN [ret |-> answer, sent |-> sent]
            ELSE IF StreamError(stream) # "none"
            THEN [ret |-> GsErr(StreamError(stream)), sent |-> sent]
            ELSE [ret |-> answer, sent |-> sent]

GetPartReq(digest, offset, length) ==
    [op |-> "get_part", digest |-> digest, offset |-> offset, length |-> length]

\* get_part_ref on an AC store: get_action_result_as_part.
GetActionResultAsPart(digest, offset, length) ==
    /\ gs_config.store_type = "AC"
    /\ gs_req.op = "none"
    /\ gs_req' = GetPartReq(digest, offset, length)
    /\ \E transient \in TransientPatterns :
          LET r == get_action_result(digest, transient)
              value == r.ret.data
          IN /\ gs_sent' = r.sent
             /\ IF ~r.ret.ok
                THEN gs_ret' = GsErr(r.ret.code) /\ gs_writer' = NoWriter
                ELSE IF offset > Len(value)
                THEN /\ gs_ret' \in OffsetPastEnd(length)
                     /\ gs_writer' = [data |-> <<>>, eofs |-> IF gs_ret'.ok THEN 1 ELSE 0]
                ELSE /\ gs_ret' = GsOk(<<>>)
                     /\ gs_writer' = [data |-> get_part_chunks(value, offset, length),
                                      eofs |-> 1]
    /\ UNCHANGED <<gstoreFrame, gs_config, gs_upstream, gs_results>>

\* get_part_ref on a CAS store: EOF alone for a digest of size 0; else the
\* blob is read from the upstream with read_limit = length.unwrap_or(0) and
\* every message of the answer is passed to the writer, then EOF.
GetPartRef(digest, offset, length) ==
    /\ gs_config.store_type = "CAS"
    /\ gs_req.op = "none"
    /\ gs_req' = GetPartReq(digest, offset, length)
    /\ IF digest.size_bytes = 0
       THEN /\ gs_ret' = GsOk(<<>>)
            /\ gs_writer' = [data |-> <<>>, eofs |-> 1]
            /\ gs_sent' = <<>>
       ELSE \E transient \in TransientPatterns :
               LET r == read(gs_config.instance_name \o <<Slash>> \o BlobPath(digest),
                             offset, IF length = None THEN 0 ELSE length, transient)
               IN /\ gs_sent' = r.sent
                  /\ IF ~r.ret.ok
                     THEN gs_ret' = GsErr(r.ret.code) /\ gs_writer' = NoWriter
                     ELSE /\ gs_ret' = GsOk(<<>>)
                          /\ \E chunks \in ChunkingsOf(r.ret.data) :
                                gs_writer' = [data |-> chunks, eofs |-> 1]
    /\ UNCHANGED <<gstoreFrame, gs_config, gs_upstream, gs_results>>

\* What a call of the service layer carries: the client's instance name and
\* the rest of the resource name after it, or a name without any slash.
ClientInstanceNames == {<<>>, <<"client">>, <<"a", Slash, "b">>}
Malformed == <<"malformed">>

\* The resource names a client sends for a path.
ResourceNames(path) ==
    {[instance_name |-> instance, path |-> path,
      resource_name |-> instance \o <<Slash>> \o path] :
         instance \in ClientInstanceNames}
        \cup {[instance_name |-> <<>>, path |-> path, resource_name |-> Malformed]}

\* A call of find_missing_blobs, batch_update_blobs, batch_read_blobs or
\* get_tree with a request of a client.
CasCall(rpc, instance_name, digests) ==
    /\ gs_req.op = "none"
    /\ \E transient \in TransientPatterns :
          LET r == cas_request([rpc |-> rpc, instance_name |-> instance_name,
                                blob_digests |-> digests], transient)
          IN /\ gs_req' = [op |-> rpc, instance_name |-> instance_name,
                            transient |-> transient]
             /\ gs_ret' = r.ret
             /\ gs_sent' = r.sent
    /\ gs_writer' = NoWriter
    /\ UNCHANGED <<gstoreFrame, gs_config, gs_upstream, gs_results>>

\* A call of read with a ReadRequest of a client.
ReadCall(name, read_offset, read_limit) ==
    /\ gs_req.op = "none"
    /\ \E transient \in TransientPatterns :
          LET r == read(name.resource_name, read_offset, read_limit, transient)
          IN /\ gs_req' = [op |-> "read", instance_name |-> name.instance_name,
                            path |-> name.path, resource_name |-> name.resource_name,
                            transient |-> transient]
             /\ gs_ret' = r.ret
             /\ gs_sent' = r.sent
    /\ gs_writer' = NoWriter
    /\ UNCHANGED <<gstoreFrame, gs_config, gs_upstream, gs_results>>

\* A call of query_write_status with a request of a client.
QueryWriteStatusCall(name) ==
    /\ gs_req.op = "none"
    /\ \E transient \in TransientPatterns :
          LET r == query_write_status(name.resource_name, transient)
          IN /\ gs_req' = [op |-> "query_write_status",
                            instance_name |-> name.instance_name,
                            path |-> name.path, resource_name |-> name.resource_name,
                            transient |-> transient]
             /\ gs_ret' = r.ret
             /\ gs_sent' = r.sent
    /\ gs_writer' = NoWriter
    /\ UNCHANGED <<gstoreFrame, gs_config, gs_upstream, gs_results>>

\* A call of write with a client's stream: a first message, then a second
\* message, an Err or the end; the upstream answers what it makes of the
\* stream it receives.
WriteCall(first, rest) ==
    /\ gs_req.op = "none"
    /\ gs_req' = [op |-> "write", instance_name |-> first.instance_name,
                   path |-> first.path, resource_name |-> first.resource_name,
                   rest |-> rest]
    /\ \E answer \in {GsOk(<<>>), GsErr("InvalidArgument"), GsErr("Unavailable")} :
          LET r == write(<<[kind |-> "msg", resource_name |-> first.resource_name]>>
                             \o rest, answer)
          IN gs_ret' = r.ret /\ gs_sent' = r.sent
    /\ gs_writer' = NoWriter
    /\ UNCHANGED <<gstoreFrame, gs_config, gs_upstream, gs_results>>

\* A call of get_action_result with a request of a client.
GetActionResultCall(digest) ==
    /\ gs_req.op = "none"
    /\ \E transient \in TransientPatterns :
          LET r == get_action_result(digest, transient)
          IN /\ gs_req' = [op |-> "get_action_result", digest |-> digest,
                            transient |-> transient]
             /\ gs_ret' = r.ret
             /\ gs_sent' = r.sent
    /\ gs_writer' = NoWriter
    /\ UNCHANGED <<gstoreFrame, gs_config, gs_upstream, gs_results>>

StoreInstanceNames == {<<"main">>, <<"main", Slash, "x">>}

GrpcStoreInit ==
    /\ gs_config \in [instance_name : StoreInstanceNames,
                      store_type : {"CAS", "AC"},
                      max_retries : 0..MaxRetries]
    /\ gs_upstream \in SUBSET GrpcDigests
    /\ gs_req = [op |-> "none"]
    /\ gs_ret = [op |-> "none"]
    /\ gs_sent = <<>>
    /\ gs_writer = NoWriter
    /\ gs_results = <<>>

NextGrpcStore ==
    \/ \E d \in GrpcDigests, offset \in 0..MaxBytes, length \in {None} \cup 0..MaxBytes :
          GetActionResultAsPart(d, offset, length)
    \/ \E d \in GrpcDigests, offset \in 0..MaxBytes, length \in {None} \cup 0..MaxBytes :
          GetPartRef(d, offset, length)
    \/ \E d1, d2 \in GrpcDigests : \E digests \in {<<d1>>, <<d1, d2>>} :
          HasWithResults(digests)
    \/ \E rpc \in {"find_missing_blobs", "batch_update_blobs", "batch_read_blobs",
                   "get_tree"}, instance \in ClientInstanceNames, d \in GrpcDigests :
          CasCall(rpc, instance, <<d>>)
    \/ \E d \in GrpcDigests : \E name \in ResourceNames(BlobPath(d)) :
          \E read_offset \in 0..MaxBytes, read_limit \in 0..MaxBytes :
              ReadCall(name, read_offset, read_limit)
    \/ \E d \in GrpcDigests : \E name \in ResourceNames(UploadPath(d)) :
          QueryWriteStatusCall(name)
    \/ \E d \in GrpcDigests : \E first \in ResourceNames(UploadPath(d)) :
          \E rest \in {<<>>, <<[kind |-> "msg", resource_name |-> first.resource_name]>>,
                        <<[kind |-> "msg", resource_name |-> Malformed]>>,
                        <<[kind |-> "err", code |-> "Internal"]>>} :
              WriteCall(first, rest)
    \/ \E d \in GrpcDigests : GetActionResultCall(d)

InitGrpcStore ==
    /\ IdleStores
    /\ ClsInit
    /\ WorkerInit
    /\ GetTreeIdle
    /\ RaceIdle
    /\ TreeIdle
    /\ DigestIdle
    /\ FactoryIdle
    /\ PartitionIdle
    /\ UploadIdle
    /\ ModifierIdle
    /\ SatisfyIdle
    /\ MemoryInit
    /\ GrpcStoreInit

SpecGrpcStore == InitGrpcStore /\ [][NextGrpcStore]_vars

\* The bytes [offset, min(offset + length, n)) of the blob of n bytes.
Range(n, offset, length) ==
    SubSeq(Blob(n), offset + 1,
           IF length = None \/ offset + length > n THEN n ELSE offset + length)

\* C22 as stated, for GrpcStore in CAS mode: for a blob of size n that the
\* upstream holds and an offset <= n, a get_part the transport does not fail
\* sends the writer exactly the bytes [offset, min(offset + length, n)) of
\* the blob (all from offset for None, none for Some(0)) and then EOF once.
C22_GetPartSendsRange ==
    (/\ gs_req.op = "get_part"
     /\ gs_config.store_type = "CAS"
     /\ gs_req.digest \in gs_upstream
     /\ gs_req.offset <= gs_req.digest.size_bytes
     /\ gs_ret.ok)
        => /\ Concat(gs_writer.data)
                 = Range(gs_req.digest.size_bytes, gs_req.offset, gs_req.length)
           /\ gs_writer.eofs = 1

\* C23 as stated, for GrpcStore in CAS and in AC mode: has_with_results
\* fails only on transport or internal errors, never because a blob is
\* missing; when it returns Ok every absent digest has None at its index.
C23_HasNeverFailsOnMissing ==
    gs_req.op = "has_with_results" =>
        /\ gs_ret.ok \/ gs_ret.code \in {"Unavailable", "Internal"}
        /\ gs_ret.ok =>
              \A i \in DOMAIN gs_req.digests :
                  gs_req.digests[i] \notin gs_upstream => gs_results[i] = NoSize

\* ------------------------------------------------ SizePartitioningStore
\* The child a digest goes to, with the size itself sent to lower_store.
SelectedChild_SizeToLower(digest) ==
    IF digest.size_bytes <= sp_size THEN "lower" ELSE "upper"

\* The child a digest goes to: lower_store when size_bytes < size, else
\* upper_store.
SelectedChild(digest) ==
    IF digest.size_bytes < sp_size THEN "lower" ELSE "upper"

PartReq(op, digest) == [op |-> op, digest |-> digest]

\* update(digest, reader, size_info) is handed to the selected child.
PartUpdate(digest, size_info) ==
    /\ sp_req' = PartReq("update", digest)
    /\ \E chunks \in ChunkingsOf(Blob(digest.size_bytes)) :
          IF SelectedChild(digest) = "lower"
          THEN /\ sp_lower' = UpdatedMap(sp_lower, digest, chunks, size_info)
               /\ sp_upper' = sp_upper
          ELSE /\ sp_upper' = UpdatedMap(sp_upper, digest, chunks, size_info)
               /\ sp_lower' = sp_lower
    /\ sp_touched' = {SelectedChild(digest)}
    /\ sp_ret' = MsOk(<<>>)
    /\ UNCHANGED <<partFrame, sp_size>>

\* has(digest) asks the selected child.
PartHas(digest) ==
    /\ sp_req' = PartReq("has", digest)
    /\ LET store == IF SelectedChild(digest) = "lower" THEN sp_lower ELSE sp_upper
       IN sp_ret' = IF digest \in DOMAIN store
                    THEN MsOk(<<Len(store[digest])>>)
                    ELSE MsOk(<<>>)
    /\ sp_touched' = {SelectedChild(digest)}
    /\ UNCHANGED <<partFrame, sp_size, sp_lower, sp_upper>>

\* get_part(digest, writer, offset, length) is handed to the selected child.
PartGetPart(digest, offset, length) ==
    /\ sp_req' = PartReq("get_part", digest)
    /\ LET store == IF SelectedChild(digest) = "lower" THEN sp_lower ELSE sp_upper
       IN IF digest \notin DOMAIN store
          THEN sp_ret' = MsErr("NotFound")
          ELSE IF offset > Len(store[digest])
          THEN sp_ret' \in OffsetPastEnd(length)
          ELSE sp_ret' = MsOk(consume(get_part_chunks(store[digest], offset, length),
                                      length))
    /\ sp_touched' = {SelectedChild(digest)}
    /\ UNCHANGED <<partFrame, sp_size, sp_lower, sp_upper>>

\* A child's eviction policy evicts an entry.
PartEvict(digest) ==
    /\ digest \in DOMAIN sp_lower \cup DOMAIN sp_upper
    /\ sp_req' = PartReq("evict", digest)
    /\ sp_lower' = MapRemove(sp_lower, digest)
    /\ sp_upper' = MapRemove(sp_upper, digest)
    /\ sp_touched' = {}
    /\ sp_ret' = MsOk(<<>>)
    /\ UNCHANGED <<partFrame, sp_size>>

NextPartition ==
    \/ \E d \in GrpcDigests : \E size_info \in UploadSizeInfos(Blob(d.size_bytes)) :
          PartUpdate(d, size_info)
    \/ \E d \in GrpcDigests : PartHas(d)
    \/ \E d \in GrpcDigests, offset \in 0..MaxBytes, length \in {None} \cup 0..MaxBytes :
          PartGetPart(d, offset, length)
    \/ \E d \in GrpcDigests : PartEvict(d)

\* setup_stores(size): two empty MemoryStores under a partitioning store.
InitPartition ==
    /\ IdleStores
    /\ ClsInit
    /\ WorkerInit
    /\ GetTreeIdle
    /\ RaceIdle
    /\ TreeIdle
    /\ DigestIdle
    /\ FactoryIdle
    /\ UploadIdle
    /\ ModifierIdle
    /\ SatisfyIdle
    /\ MemoryInit
    /\ GrpcStoreIdle
    /\ sp_size \in 0..(MaxBytes + 1)
    /\ sp_lower = <<>>
    /\ sp_upper = <<>>
    /\ sp_req = [op |-> "none"]
    /\ sp_ret = [op |-> "none"]
    /\ sp_touched = {}

SpecPartition == InitPartition /\ [][NextPartition]_vars

\* C24: a SizePartitioningStore with threshold T sends every has, get_part
\* and update for a digest with size_bytes < T to lower_store only and for
\* size_bytes >= T to upper_store only; so after any sequence of calls
\* lower_store holds only blobs smaller than T, upper_store only blobs of
\* at least T, and no blob is in both.
C24_RoutedBySize ==
    /\ sp_req.op \in {"has", "get_part", "update"} =>
          sp_touched = {IF sp_req.digest.size_bytes < sp_size THEN "lower" ELSE "upper"}
    /\ \A d \in DOMAIN sp_lower : d.size_bytes < sp_size
    /\ \A d \in DOMAIN sp_upper : d.size_bytes >= sp_size
    /\ DOMAIN sp_lower \cap DOMAIN sp_upper = {}
    /\ (sp_req.op = "update" /\ sp_req.digest.size_bytes < sp_size)
          => sp_req.digest \in DOMAIN sp_lower
    /\ (sp_req.op = "update" /\ sp_req.digest.size_bytes >= sp_size)
          => sp_req.digest \in DOMAIN sp_upper

\* Both children hold a blob, one of them of exactly the threshold's size in
\* upper_store, and the last call read a blob back from lower_store.
C24_Witness ==
    /\ \E d \in DOMAIN sp_upper : d.size_bytes = sp_size
    /\ DOMAIN sp_lower # {}
    /\ sp_req.op = "get_part"
    /\ sp_touched = {"lower"}
    /\ sp_ret.ok
    /\ sp_ret.data = Blob(sp_req.digest.size_bytes)
    /\ sp_req.digest.size_bytes > 0

CasOnlyOperations ==
    {"find_missing_blobs", "batch_update_blobs", "batch_read_blobs", "get_tree",
     "read", "write", "query_write_status"}

\* C25: on a GrpcStore whose store_type is AC, each of find_missing_blobs,
\* batch_update_blobs, batch_read_blobs, get_tree, read, write and
\* query_write_status fails with InvalidArgument and sends nothing upstream.
C25_CasOnlyRefusedOnAc ==
    (gs_config.store_type = "AC" /\ gs_req.op \in CasOnlyOperations)
        => gs_ret = GsErr("InvalidArgument") /\ gs_sent = <<>>

\* An AC store refused a find_missing_blobs that its upstream could have
\* answered.
C25_Witness ==
    /\ gs_config.store_type = "AC"
    /\ gs_req.op = "find_missing_blobs"
    /\ gs_upstream # {}
    /\ gs_ret = GsErr("InvalidArgument")

\* The resource names of the requests sent upstream by the last call.
SentResourceNames ==
    UNION {IF gs_sent[i].rpc = "Write"
           THEN {gs_sent[i].messages[j] : j \in DOMAIN gs_sent[i].messages}
           ELSE {gs_sent[i].resource_name} : i \in DOMAIN gs_sent}

\* C26: a read, write or query_write_status forwarded upstream carries the
\* client's resource name with exactly the client's instance name replaced
\* by the store's instance_name and the rest of the path unchanged, for
\* every instance name a client uses.
C26_InstanceNameSegmentReplaced ==
    (gs_req.op \in {"read", "write", "query_write_status"}
         /\ gs_req.resource_name = gs_req.instance_name \o <<Slash>> \o gs_req.path)
        => \A name \in SentResourceNames :
               name = gs_config.instance_name \o <<Slash>> \o gs_req.path

\* C27: when the upstream answers a request with NotFound, and no attempt
\* fails in transport, the NotFound is returned after exactly one attempt,
\* whatever max_retries is.
C27_NotFoundNotRetried ==
    (gs_req.op \in {"get_action_result", "read", "query_write_status",
                    "find_missing_blobs", "batch_update_blobs", "batch_read_blobs",
                    "get_tree"}
         /\ (\A i \in DOMAIN gs_req.transient : ~gs_req.transient[i])
         /\ gs_ret = GsErr("NotFound"))
        => Len(gs_sent) = 1

\* The last call carried a resource name without any slash: the name of a
\* read or query_write_status, or that of a message of a write stream.
MalformedNameSeen ==
    \/ /\ gs_req.op \in {"read", "query_write_status", "write"}
       /\ find_slash(gs_req.resource_name) = 0
    \/ /\ gs_req.op = "write"
       /\ \E i \in DOMAIN gs_req.rest :
             /\ gs_req.rest[i].kind = "msg"
             /\ find_slash(gs_req.rest[i].resource_name) = 0

\* C28: on a CAS store a read, a query_write_status or a write that carries
\* a resource name without a slash fails; the call never returns Ok after
\* such a name.  (The failure is specified as InvalidArgument; this is the
\* part of the property that does not depend on the code.)
C28_MalformedNameNeverOk ==
    (gs_config.store_type = "CAS" /\ MalformedNameSeen) => ~gs_ret.ok

\* C21 as stated, for MemoryStore: get_part fails with NotFound when the
\* digest is absent and with InvalidArgument when the offset exceeds the
\* stored blob's size, and in both cases no data byte reaches the reader.
C21_GetPartNotFoundOrInvalidArgument ==
    ms_req.op = "get_part_unchunked" =>
        /\ ms_req.digest \notin DOMAIN evicting_map => ms_ret = MsErr("NotFound")
        /\ (/\ ms_req.digest \in DOMAIN evicting_map
            /\ ms_req.offset > Len(evicting_map[ms_req.digest]))
               => ms_ret = MsErr("InvalidArgument")


\* ------------------------------------------------------ scheduler_factory
\* SchedulerConfig: simple or grpc, wrapped in cache_lookup and
\* property_modifier layers; whether the stores a cache_lookup layer names
\* exist in the StoreManager.
RECURSIVE LayerSeqs(_)
LayerSeqs(n) ==
    IF n = 0 THEN {<<>>}
    ELSE LayerSeqs(n - 1)
             \cup {<<layer>> \o rest : layer \in {"cache_lookup", "property_modifier"},
                                       rest \in {l \in LayerSeqs(n - 1) : Len(l) = n - 1}}

SchedulerConfigs ==
    [layers : LayerSeqs(MaxLayers), base : {"simple", "grpc"}, stores_exist : BOOLEAN]

\* The scheduler objects a config builds, named by the depth of the config
\* that builds them: the base is the deepest.
SchedulerObjects == 0..Len(sf_config.layers)

\* The block after the match: register_metrics on the action scheduler
\* unless its address was visited; on the worker scheduler unless its
\* address was visited, and then once more.
RegisterMetrics(action_scheduler, worker_scheduler) ==
    LET Inc(registered, object) == [registered EXCEPT ![object] = @ + 1]
        visited1 == visited_schedulers \cup {action_scheduler}
        registered1 == IF action_scheduler \in visited_schedulers THEN sf_registered
                       ELSE Inc(sf_registered, action_scheduler)
    IN IF worker_scheduler = None
       THEN /\ visited_schedulers' = visited1
            /\ sf_registered' = registered1
       ELSE /\ visited_schedulers' = visited1 \cup {worker_scheduler}
            /\ sf_registered' =
                   Inc(IF worker_scheduler \in visited1 THEN registered1
                       ELSE Inc(registered1, worker_scheduler),
                       worker_scheduler)

\* inner_scheduler_factory on a cache_lookup or property_modifier config,
\* up to its nested call: a cache_lookup whose stores do not exist fails.
FactoryEnter ==
    /\ sf_pc = "enter"
    /\ sf_pos < Len(sf_config.layers)
    /\ IF sf_config.layers[sf_pos + 1] = "cache_lookup" /\ ~sf_config.stores_exist
       THEN sf_pc' = "failed" /\ sf_pos' = sf_pos
       ELSE sf_pc' = "enter" /\ sf_pos' = sf_pos + 1
    /\ UNCHANGED <<factoryFrame, sf_config, sf_action, sf_worker, visited_schedulers,
                   sf_registered>>

\* inner_scheduler_factory on a simple or grpc config: a SimpleScheduler is
\* both the action and the worker scheduler, a GrpcScheduler only the
\* action scheduler.
FactoryBase ==
    /\ sf_pc = "enter"
    /\ sf_pos = Len(sf_config.layers)
    /\ sf_action' = sf_pos
    /\ sf_worker' = IF sf_config.base = "simple" THEN sf_pos ELSE None
    /\ RegisterMetrics(sf_action', sf_worker')
    /\ sf_pc' = IF sf_pos = 0 THEN "done" ELSE "return"
    /\ UNCHANGED <<factoryFrame, sf_config, sf_pos>>

\* inner_scheduler_factory on a cache_lookup or property_modifier config,
\* after its nested call: the new scheduler wraps the nested action
\* scheduler, the nested worker scheduler is handed up as it is.
FactoryWrap ==
    /\ sf_pc = "return"
    /\ sf_pos > 0
    /\ sf_pos' = sf_pos - 1
    /\ sf_action' = sf_pos - 1
    /\ sf_worker' = sf_worker
    /\ RegisterMetrics(sf_action', sf_worker')
    /\ sf_pc' = IF sf_pos' = 0 THEN "done" ELSE "return"
    /\ UNCHANGED <<factoryFrame, sf_config>>

NextFactory == FactoryEnter \/ FactoryBase \/ FactoryWrap

InitFactory ==
    /\ IdleStores
    /\ ClsInit
    /\ WorkerInit
    /\ GetTreeIdle
    /\ RaceIdle
    /\ TreeIdle
    /\ UploadIdle
    /\ ModifierIdle
    /\ SatisfyIdle
    /\ MemoryInit
    /\ GrpcStoreIdle
    /\ PartitionIdle
    /\ DigestIdle
    /\ sf_config \in SchedulerConfigs
    /\ sf_pos = 0
    /\ sf_pc = "enter"
    /\ sf_action = None
    /\ sf_worker = None
    /\ visited_schedulers = {}
    /\ sf_registered = [object \in 0..Len(sf_config.layers) |-> 0]

SpecFactory == InitFactory /\ [][NextFactory]_vars

\* C29: when scheduler_factory has returned, register_metrics was called
\* exactly once on every scheduler object it built, whatever the nesting.
C29_RegisteredOncePerObject ==
    sf_pc = "done" => \A object \in SchedulerObjects : sf_registered[object] = 1

\* ------------------------------------------------------------- DigestInfo
\* Hash strings are sequences of characters; "g" is not a hex digit.
HexChars == {"0", "a", "A", "g"}
HexDigits == <<"0", "1", "2", "3", "4", "5", "6", "7", "8", "9",
               "a", "b", "c", "d", "e", "f">>
NoNibble == 16

\* hex::FromHex, one character: digits, a-f and A-F are accepted.
val(c) ==
    CASE c = "0" -> 0
      [] c \in {"a", "A"} -> 10
      [] OTHER -> NoNibble

RECURSIVE StringsOfLen(_)
StringsOfLen(n) ==
    IF n = 0 THEN {<<>>}
    ELSE {<<c>> \o rest : c \in HexChars, rest \in StringsOfLen(n - 1)}

\* The hash strings callers pass: of the right length, or one digit short.
HashStrings ==
    StringsOfLen(2 * HashBytes) \cup {[i \in 1..(2 * HashBytes - 1) |-> "a"]}
DigestSizes == {0, 1}
DigestSlots == {1, 2}

\* <[u8; 32]>::from_hex: Err (here <<>>) unless the string has two hex
\* digits per byte; else the bytes.
from_hex_ok(hash) ==
    /\ Len(hash) = 2 * HashBytes
    /\ \A i \in DOMAIN hash : val(hash[i]) # NoNibble

from_hex(hash) ==
    [i \in 1..HashBytes |-> 16 * val(hash[2 * i - 1]) + val(hash[2 * i])]

\* hex::encode: two lowercase digits per byte.
RECURSIVE encode(_)
encode(packed_hash) ==
    IF packed_hash = <<>> THEN <<>>
    ELSE <<HexDigits[(Head(packed_hash) \div 16) + 1],
           HexDigits[(Head(packed_hash) % 16) + 1]>> \o encode(Tail(packed_hash))

\* LazyTransform<Option<String>, String>: the source value until the first
\* get_or_create, the transformed value afterwards.
LazyNew(has, value) == [transformed |-> FALSE, has |-> has, value |-> value]
LazyDone(value) == [transformed |-> TRUE, has |-> TRUE, value |-> value]

NoInfo == [present |-> FALSE]
MakeDigestInfo(size_bytes, packed_hash, str_hash) ==
    [present |-> TRUE, size_bytes |-> size_bytes, packed_hash |-> packed_hash,
     trust_size |-> FALSE, str_hash |-> str_hash]

\* PartialEq for DigestInfo
DigestEq(a, b) == a.size_bytes = b.size_bytes /\ a.packed_hash = b.packed_hash

\* What get_or_create / into_inner's unwrap_or_else chain yields: the
\* transformed value, else the source string, else the encoding.
StrHashValue(info) ==
    IF info.str_hash.has THEN info.str_hash.value ELSE encode(info.packed_hash)

\* What the last call returned: for str and into the string, with the
\* packed_hash and size_bytes of the value it was called on.
DigestOut(op, ok, hash, info) ==
    [op |-> op, ok |-> ok, hash |-> hash,
     packed_hash |-> IF ok THEN info.packed_hash ELSE <<>>,
     size_bytes |-> IF ok THEN info.size_bytes ELSE 0]

\* DigestInfo::try_new
try_new(slot, hash, size_bytes) ==
    /\ IF from_hex_ok(hash)
       THEN dg_infos' = [dg_infos EXCEPT
                ![slot] = MakeDigestInfo(size_bytes, from_hex(hash), LazyNew(FALSE, <<>>))]
       ELSE UNCHANGED dg_infos
    /\ dg_out' = DigestOut("try_new", from_hex_ok(hash), <<>>,
                           [packed_hash |-> <<>>, size_bytes |-> 0])
    /\ UNCHANGED digestFrame

\* TryFrom<Digest> for DigestInfo
try_from(slot, digest) ==
    /\ IF from_hex_ok(digest.hash)
       THEN dg_infos' = [dg_infos EXCEPT
                ![slot] = MakeDigestInfo(digest.size_bytes, from_hex(digest.hash),
                                         LazyNew(TRUE, digest.hash))]
       ELSE UNCHANGED dg_infos
    /\ dg_out' = DigestOut("try_from", from_hex_ok(digest.hash), <<>>,
                           [packed_hash |-> <<>>, size_bytes |-> 0])
    /\ UNCHANGED digestFrame

\* Clone for DigestInfo
clone(from, to) ==
    /\ dg_infos[from].present
    /\ dg_infos' = [dg_infos EXCEPT
           ![to] = MakeDigestInfo(dg_infos[from].size_bytes, dg_infos[from].packed_hash,
                                  LazyNew(FALSE, <<>>))]
    /\ dg_out' = DigestOut("clone", TRUE, <<>>, [packed_hash |-> <<>>, size_bytes |-> 0])
    /\ UNCHANGED digestFrame

\* DigestInfo::str
str(slot) ==
    /\ dg_infos[slot].present
    /\ dg_infos' = [dg_infos EXCEPT
           ![slot].str_hash = LazyDone(StrHashValue(dg_infos[slot]))]
    /\ dg_out' = DigestOut("str", TRUE, StrHashValue(dg_infos[slot]), dg_infos[slot])
    /\ UNCHANGED digestFrame

\* Into<Digest> for DigestInfo
into(slot) ==
    /\ dg_infos[slot].present
    /\ dg_infos' = [dg_infos EXCEPT ![slot] = NoInfo]
    /\ dg_out' = DigestOut("into", TRUE, StrHashValue(dg_infos[slot]), dg_infos[slot])
    /\ UNCHANGED digestFrame

NextDigest ==
    \/ \E hash \in HashStrings, size_bytes \in DigestSizes :
          try_new(1, hash, size_bytes)
    \/ \E hash \in HashStrings, size_bytes \in DigestSizes :
          try_from(2, [hash |-> hash, size_bytes |-> size_bytes])
    \/ \E from \in DigestSlots, to \in DigestSlots : from # to /\ clone(from, to)
    \/ \E slot \in DigestSlots : str(slot)
    \/ \E slot \in DigestSlots : into(slot)

InitDigest ==
    /\ IdleStores
    /\ ClsInit
    /\ WorkerInit
    /\ GetTreeIdle
    /\ RaceIdle
    /\ TreeIdle
    /\ UploadIdle
    /\ ModifierIdle
    /\ SatisfyIdle
    /\ MemoryInit
    /\ GrpcStoreIdle
    /\ PartitionIdle
    /\ FactoryIdle
    /\ dg_infos = [slot \in DigestSlots |-> NoInfo]
    /\ dg_out = [op |-> "none"]

SpecDigest == InitDigest /\ [][NextDigest]_vars

\* C30: str() and the hash of the Digest a DigestInfo converts into are the
\* lowercase hex encoding of its packed_hash, however it was constructed.
C30_StringificationLowercase ==
    dg_out.op \in {"str", "into"} => dg_out.hash = encode(dg_out.packed_hash)

\* ------------------------------------------- claims on the in-flight map
\* C34: a find_existing_action for a key in the in-flight map completes with
\* a subscription: its send is never left waiting for the watch value's lock
\* (nor panics on it), and it never stays in possession of the mutex of the
\* in-flight map.
C34_FindInFlightCompletes ==
    /\ ~mutex_held
    /\ \A c \in Calls :
          req[c].op = "find_existing_action" => ret[c].kind \in {"Some", "None"}

\* The cache-check tasks running for key k.
RunningFor(k) ==
    {c \in Calls : IsLookup(c) /\ TaskRunning(c) /\ InfoOf(c).unique_qualifier = k}

\* C35: an entry of the in-flight map under k is the sender of a cache-check
\* task still running for k, and as long as a task is running for k the map
\* has such an entry: the end of another task for k does not take it away.
C35_EntryIsOfRunningTask ==
    \A k \in HashKeys :
        /\ cache_check_actions[k] # 0 => cache_check_actions[k] \in RunningFor(k)
        /\ RunningFor(k) # {} => cache_check_actions[k] # 0

\* C39: when the upstream operation stream has ended or failed, the
\* forwarding task of GrpcScheduler returns and drops its sender: it is not
\* left alive, holding the sender, while a receiver still waits on the
\* channel.
C39_StreamEndDropsSender ==
    \A c \in Calls : g_pc[c] = "wait_closed" => GrpcReceivers(c) = 0

\* The last store operation of the cache lookup of call c failed: the read
\* or decoding of the AC entry, or the existence check on the CAS.
LookupFailed(c) ==
    IsLookup(c) /\ store_err[c] /\ pc[c] \notin {"none", "get_action_from_store",
                                                 "validate_outputs_exist"}

\* C40: a failure while looking up the cache is a miss: the task goes to the
\* inner scheduler with the action and publishes nothing from the cache;
\* and the cache layer publishes a stage Error of its own only with the
\* error the inner scheduler's add_action returned.
C40_LookupFailureIsMiss ==
    \A c \in Calls :
        /\ LookupFailed(c) =>
              /\ pc[c] \in {"add_action_upstream", "forward", "send_error", "remove", "done"}
              /\ tx_val[c].src # "cache"
              /\ pc[c] # "add_action_upstream" =>
                    inner_req[c] = [op |-> "add_action", arg |-> InfoOf(c)]
        /\ tx_val[c].src = "error" =>
              /\ inner_ret[c] \in GrpcErrors
              /\ tx_val[c] = StateValue("Error", DefaultResult, inner_ret[c], "error")

\* The AC holds a result for the action and the CAS every output of it, the
\* existence check failed, and the action was forwarded and accepted.
C40_Witness ==
    \E c \in Calls :
        /\ LookupFailed(c)
        /\ CachedAndComplete(c)
        /\ pc[c] = "forward"
        /\ inner_ret[c] = "Ok"

\* ------------------------------------------- claims on the running actions
\* Action a was returned by create_and_add_action, has not been cleaned up
\* and is still referenced by its caller.
LiveAction(a) ==
    ra_pc[a] \notin {"none", "insert", "dropped", "aborted"} /\ ~did_cleanup[a]

\* C36: get_action(action_id) finds every action that was returned by
\* create_and_add_action and is not yet cleaned up, and a cleanup about to
\* deregister finds either its own entry or none, never the entry of
\* another action.
C36_LiveActionIsRegistered ==
    \A a \in Actions :
        /\ LiveAction(a) => running_actions[ra_id[a]] = a
        /\ ra_pc[a] = "cleanup_action" => running_actions[ra_id[a]] \in {0, a}

\* This step is a call of execute or upload_results on action a that returns
\* at once with the error of a step out of order or of invalid input.
RejectedStep(a) ==
    /\ ra_pc[a] = "idle"
    /\ w_calls' = w_calls + 1
    /\ ra_pc'[a] = "idle"
    /\ w_ret'.a = a
    /\ ~w_ret'.ok
    /\ w_ret'.op \in {"execute", "upload_results"}
    /\ w_ret'.causes \subseteq {"command_proto", "kill_channel_rx", "execution_result",
                               "arguments"}

\* C37: an execute or upload_results that fails because it was called out
\* of order or with a Command without arguments leaves command_proto,
\* kill_channel_rx, execution_result and action_result of the action as
\* they were.
C37_RejectedStepChangesNothing ==
    [][\A a \in Actions : RejectedStep(a) =>
          /\ command_proto'[a] = command_proto[a]
          /\ kill_channel_rx'[a] = kill_channel_rx[a]
          /\ execution_result'[a] = execution_result[a]
          /\ ra_action_result'[a] = ra_action_result[a]]_vars

\* ------------------------------------------- the Tree of an output directory
\* What the work directory holds under a path: a directory with files and
\* with subdirectories, named by their position.
RECURSIVE DirectoriesOnDisk(_)
DirectoriesOnDisk(depth) ==
    IF depth = 0
    THEN {[files |-> fs, dirs |-> <<>>] : fs \in {{}, {"f"}}}
    ELSE LET below == DirectoriesOnDisk(depth - 1)
         IN below \cup {[files |-> {}, dirs |-> ds] :
                            ds \in [1..1 -> below] \cup [1..2 -> below]}

\* upload_directory: the Directory of the path, its DirectoryNodes naming
\* the Directory of each subdirectory (a digest stands for the message it
\* is the digest of), and the deque of directories: those returned by the
\* calls for the subdirectories, then the Directory of the path itself.
RECURSIVE upload_directory(_)
upload_directory(dir) ==
    LET dir_entries == [i \in DOMAIN dir.dirs |-> upload_directory(dir.dirs[i])]
        directory == [files |-> dir.files,
                      directories |-> [i \in DOMAIN dir.dirs |->
                                          [name |-> i,
                                           digest |-> dir_entries[i].directory]]]
        all_child_directories ==
            Concat([i \in DOMAIN dir.dirs |-> dir_entries[i].all_child_directories])
                \o <<directory>>
    IN [directory |-> directory, all_child_directories |-> all_child_directories]

\* upload_results on an output path that is a directory: the Tree built from
\* what upload_directory returned is uploaded, unless a step fails.
UploadOutputDirectory ==
    /\ ud_out.op = "none"
    /\ \E io_ok \in BOOLEAN :
          ud_out' = IF io_ok
                    THEN [op |-> "tree", ok |-> TRUE,
                          root |-> upload_directory(ud_fs).directory,
                          children |-> upload_directory(ud_fs).all_child_directories]
                    ELSE [op |-> "tree", ok |-> FALSE, root |-> <<>>, children |-> <<>>]
    /\ UNCHANGED <<treeFrame, ud_fs>>

NextTree == UploadOutputDirectory

InitTree ==
    /\ IdleStores
    /\ ClsInit
    /\ WorkerInit
    /\ GetTreeIdle
    /\ RaceIdle
    /\ UploadIdle
    /\ ModifierIdle
    /\ SatisfyIdle
    /\ MemoryInit
    /\ GrpcStoreIdle
    /\ PartitionIdle
    /\ FactoryIdle
    /\ DigestIdle
    /\ ud_fs \in DirectoriesOnDisk(MaxDepth)
    /\ ud_out = [op |-> "none"]

SpecTree == InitTree /\ [][NextTree]_vars

\* The Directory message of a directory on disk.
RECURSIVE DirectoryOf(_)
DirectoryOf(dir) ==
    [files |-> dir.files,
     directories |-> [i \in DOMAIN dir.dirs |->
                         [name |-> i, digest |-> DirectoryOf(dir.dirs[i])]]]

\* The proper descendant directories of a directory on disk.
RECURSIVE Descendants(_)
Descendants(dir) ==
    Concat([i \in DOMAIN dir.dirs |-> <<dir.dirs[i]>> \o Descendants(dir.dirs[i])])

\* C38: the Tree uploaded for an output directory has the Directory of the
\* output path as root, and as children the Directory messages of the
\* proper descendants of the path, one for each; the root's own Directory
\* is not among the children.
C38_TreeChildrenAreDescendants ==
    (ud_out.op = "tree" /\ ud_out.ok) =>
        /\ ud_out.root = DirectoryOf(ud_fs)
        /\ Len(ud_out.children) = Len(Descendants(ud_fs))
        /\ \A i \in DOMAIN ud_out.children :
              /\ ud_out.children[i] # ud_out.root
              /\ \E j \in DOMAIN Descendants(ud_fs) :
                    ud_out.children[i] = DirectoryOf(Descendants(ud_fs)[j])

\* ----------------------------------- update fed through a byte-stream channel
\* The calls: slow_update_store_with_file reading a file in 0..MaxChunks
\* chunks, update_oneshot sending its data as one chunk unless it is empty.
RaceConfigs ==
    [kind : {"slow_update_store_with_file"}, cap : 1..MaxCapacity, total : 0..MaxChunks]
        \cup [kind : {"update_oneshot"}, cap : 1..MaxCapacity, total : 0..1]

\* The reader half is dropped with the update future when it completes.
ReaderDropped == rc_update # "reading"

\* The feeding future is polled: by the select, by the await of the Left
\* arm, and by try_join! until one of the two has failed.
FeedPolled ==
    \/ rc_pc \in {"select", "left"}
    \/ rc_pc = "try_join" /\ rc_update # "err"

\* The update future polled only once the feeding side is done.
UpdatePolled_AfterFeed ==
    /\ rc_pc \in {"select", "right", "try_join"}
    /\ rc_feed # "sending"

\* The update future is polled: by the select, by the awaits after the
\* Right arm, and by try_join! until one of the two has failed.
UpdatePolled ==
    \/ rc_pc \in {"select", "right"}
    \/ rc_pc = "try_join" /\ rc_feed # "err"

\* tx.send(chunk).await: waits while the channel is full, fails when the
\* reader half is dropped, else puts the chunk in the channel.
send ==
    /\ rc_feed = "sending"
    /\ rc_sent < rc_cfg.total
    /\ IF ReaderDropped
       THEN rc_feed' = "err" /\ UNCHANGED <<rc_chan, rc_sent>>
       ELSE /\ rc_chan < rc_cfg.cap
            /\ rc_chan' = rc_chan + 1
            /\ rc_sent' = rc_sent + 1
            /\ UNCHANGED rc_feed

\* tx.send_eof(): does not wait; with the reader half dropped it may fail.
send_eof ==
    /\ rc_feed = "sending"
    /\ rc_sent = rc_cfg.total
    /\ rc_feed' \in (IF ReaderDropped THEN {"ok", "err"} ELSE {"ok"})
    /\ UNCHANGED <<rc_chan, rc_sent>>

\* The feeding side of either call takes a step: a chunk, or the EOF.
FeedStep ==
    /\ FeedPolled
    /\ send \/ send_eof
    /\ UNCHANGED <<raceFrame, rc_cfg, rc_pc, rc_update, rc_early, rc_ret>>

\* slow_update_store_with_file: reading the file fails.
FeedReadFails ==
    /\ FeedPolled
    /\ rc_cfg.kind = "slow_update_store_with_file"
    /\ rc_feed = "sending"
    /\ rc_feed' = "err"
    /\ UNCHANGED <<raceFrame, rc_cfg, rc_pc, rc_chan, rc_sent, rc_update, rc_early, rc_ret>>

\* The store's update reads a chunk from the channel.
UpdateRecv ==
    /\ UpdatePolled
    /\ rc_update = "reading"
    /\ rc_chan > 0
    /\ rc_chan' = rc_chan - 1
    /\ UNCHANGED <<raceFrame, rc_cfg, rc_pc, rc_sent, rc_feed, rc_update, rc_early, rc_ret>>

\* The store's update completes, Ok or Err, at whatever point of the
\* stream; the future is dropped and the reader half with it.
UpdateCompletes ==
    /\ UpdatePolled
    /\ rc_update = "reading"
    /\ rc_update' \in {"ok", "err"}
    /\ rc_early' = (rc_feed = "sending")
    /\ UNCHANGED <<raceFrame, rc_cfg, rc_pc, rc_chan, rc_sent, rc_feed, rc_ret>>

\* Result::merge of the results of the two sides.
Merged(update_result, read_result) ==
    [ok |-> update_result = "ok" /\ read_result = "ok",
     causes |-> (IF update_result = "err" THEN {"update"} ELSE {})
                    \cup (IF read_result = "err" THEN {"read"} ELSE {})]

\* slow_update_store_with_file, the select: the arm of the future that is
\* ready is taken.
SelectArm ==
    /\ rc_pc = "select"
    /\ \/ ReaderDropped /\ rc_pc' = "left"
       \/ rc_feed # "sending" /\ rc_pc' = "right"
    /\ UNCHANGED <<raceFrame, rc_cfg, rc_chan, rc_sent, rc_feed, rc_update, rc_early, rc_ret>>

\* slow_update_store_with_file, the returns: the Left arm once the feeding
\* future it awaits is done, else once the update is done.
SlowUpdateReturns ==
    /\ \/ rc_pc = "left" /\ rc_feed # "sending"
       \/ rc_pc = "right" /\ ReaderDropped
    /\ rc_ret' = Merged(rc_update, rc_feed)
    /\ rc_pc' = "returned"
    /\ UNCHANGED <<raceFrame, rc_cfg, rc_chan, rc_sent, rc_feed, rc_update, rc_early>>

\* update_oneshot, try_join!: Err as soon as one side has failed (the first
\* in the order of the arguments), Ok when both are done.
UpdateOneshotReturns ==
    /\ rc_pc = "try_join"
    /\ \/ rc_feed = "err" \/ rc_update = "err"
       \/ rc_feed = "ok" /\ rc_update = "ok"
    /\ rc_ret' = IF rc_feed = "err" THEN [ok |-> FALSE, causes |-> {"read"}]
                 ELSE IF rc_update = "err" THEN [ok |-> FALSE, causes |-> {"update"}]
                 ELSE [ok |-> TRUE, causes |-> {}]
    /\ rc_pc' = "returned"
    /\ UNCHANGED <<raceFrame, rc_cfg, rc_chan, rc_sent, rc_feed, rc_update, rc_early>>

\* The steps of a call in which nothing fails on the feeding side by itself.
RaceProgress ==
    \/ FeedStep
    \/ UpdateRecv
    \/ UpdateCompletes
    \/ SelectArm
    \/ SlowUpdateReturns
    \/ UpdateOneshotReturns

NextRace ==
    \/ FeedStep
    \/ FeedReadFails
    \/ UpdateRecv
    \/ UpdateCompletes
    \/ SelectArm
    \/ SlowUpdateReturns
    \/ UpdateOneshotReturns

InitRace ==
    /\ IdleStores
    /\ ClsInit
    /\ WorkerInit
    /\ GetTreeIdle
    /\ UploadIdle
    /\ ModifierIdle
    /\ SatisfyIdle
    /\ MemoryInit
    /\ GrpcStoreIdle
    /\ PartitionIdle
    /\ FactoryIdle
    /\ DigestIdle
    /\ TreeIdle
    /\ rc_cfg \in RaceConfigs
    /\ rc_pc = IF rc_cfg.kind = "update_oneshot" THEN "try_join" ELSE "select"
    /\ rc_chan = 0
    /\ rc_sent = 0
    /\ rc_feed = "sending"
    /\ rc_update = "reading"
    /\ rc_early = FALSE
    /\ rc_ret = [ok |-> TRUE, causes |-> {}]

SpecRace == InitRace /\ [][NextRace]_vars

\* C31: a call of slow_update_store_with_file or update_oneshot that has not
\* returned can always take a step other than a failed read of the file, also
\* when the update has completed with the feeding side still sending into a
\* full channel; and when it returns,
\* it returns Ok only if both sides ended Ok, the error of the side that
\* failed otherwise (of both, merged, in slow_update_store_with_file).
C31_UpdateAndFeederNeverStuck ==
    /\ rc_pc # "returned" => ENABLED RaceProgress
    /\ rc_pc = "returned" =>
          /\ rc_ret.ok = (rc_update = "ok" /\ rc_feed = "ok")
          /\ rc_ret.causes \subseteq Merged(rc_update, rc_feed).causes
          /\ rc_cfg.kind = "slow_update_store_with_file" =>
                rc_ret = Merged(rc_update, rc_feed)

\* The update completed Ok while the feeding side was waiting on a full
\* channel with chunks left to send, and the call has returned.
C31_Witness ==
    /\ rc_pc = "returned"
    /\ rc_early
    /\ rc_update = "ok"
    /\ rc_chan = rc_cfg.cap
    /\ rc_sent < rc_cfg.total

\* ------------------------------------------------ GetTree of the CAS server
\* The Directory messages are numbered from the root, 1; a Directory names
\* its subdirectories by digest, and only Directories of a higher number,
\* the same one more than once when subdirectories have equal contents.
RECURSIVE ChildLists(_, _)
ChildLists(d, n) ==
    IF n = 0 THEN {<<>>}
    ELSE ChildLists(d, n - 1)
            \cup {Append(l, c) : l \in {m \in ChildLists(d, n - 1) : Len(m) = n - 1},
                                 c \in (d + 1)..MaxDirectories}

TreeStores == {st \in [1..MaxDirectories -> ChildLists(1, MaxChildren)] :
                  \A d \in 1..MaxDirectories : st[d] \in ChildLists(d, MaxChildren)}

\* The Digest message of Directory d.
DirectoryBytes == <<10, 160, 170, 0>>
DigestOfDirectory(d) ==
    [hash |-> encode([i \in 1..HashBytes |-> DirectoryBytes[d]]), size_bytes |-> 10 + d]

\* TryFrom<Digest> for DigestInfo, as a value.
try_into(digest) ==
    MakeDigestInfo(digest.size_bytes, from_hex(digest.hash), LazyNew(TRUE, digest.hash))

\* i64's Display.
RECURSIVE to_string(_)
to_string(n) ==
    IF n < 10 THEN <<HexDigits[n + 1]>>
    ELSE to_string(n \div 10) \o <<HexDigits[(n % 10) + 1]>>

\* format!("{}-{}", value.hash_str(), value.size_bytes)
FormatPageToken(value) ==
    StrHashValue(value) \o <<"-">> \o to_string(value.size_bytes)

\* str::split("-"): the parts between the dashes, one part when there is none.
RECURSIVE split(_)
split(s) ==
    IF \A i \in DOMAIN s : s[i] # "-" THEN <<s>>
    ELSE LET at == CHOOSE i \in DOMAIN s : s[i] = "-" /\ \A j \in 1..(i - 1) : s[j] # "-"
         IN  <<SubSeq(s, 1, at - 1)>> \o split(SubSeq(s, at + 1, Len(s)))

\* str::parse::<i64>, on strings without a sign: Err unless one or more
\* decimal digits.
DecimalDigit(c) ==
    IF \E i \in 1..10 : HexDigits[i] = c
    THEN (CHOOSE i \in 1..10 : HexDigits[i] = c) - 1
    ELSE NoNibble

parse_ok(part) ==
    /\ part # <<>>
    /\ \A i \in DOMAIN part : DecimalDigit(part[i]) # NoNibble

RECURSIVE parse(_)
parse(part) ==
    IF part = <<>> THEN 0
    ELSE 10 * parse(SubSeq(part, 1, Len(part) - 1)) + DecimalDigit(part[Len(part)])

\* The page_token parsed as a digest: the first two parts of the split go to
\* DigestInfo::try_new; NoInfo when a `?` returns the error.
PageTokenDigest(page_token) ==
    LET page_token_parts == split(page_token)
    IN  IF \/ Len(page_token_parts) < 2
           \/ ~parse_ok(page_token_parts[2])
           \/ ~from_hex_ok(page_token_parts[1])
        THEN NoInfo
        ELSE MakeDigestInfo(parse(page_token_parts[2]), from_hex(page_token_parts[1]),
                            LazyNew(FALSE, <<>>))

\* The while loop: pop the front, fetch its Directory, note a match with the
\* page token, push the subdirectories, and once matched collect the
\* Directory and stop at page_size.  The Directories and the digests in the
\* deque are given by their numbers.
RECURSIVE Traverse(_, _, _, _, _, _)
Traverse(store, deque, directories, page_token_matched, page_token_digest, page_size) ==
    IF deque = <<>> THEN [directories |-> directories, deque |-> deque]
    ELSE LET front == Head(deque)
             matched == \/ page_token_matched
                        \/ DigestEq(try_into(DigestOfDirectory(front)), page_token_digest)
             pushed == Tail(deque) \o store[front]
         IN  IF ~matched
             THEN Traverse(store, pushed, directories, FALSE, page_token_digest, page_size)
             ELSE IF Len(directories) + 1 = page_size
             THEN [directories |-> Append(directories, front), deque |-> pushed]
             ELSE Traverse(store, pushed, Append(directories, front), TRUE,
                           page_token_digest, page_size)

\* CasServer::inner_get_tree on a store that is not a GrpcStore and holds
\* every Directory of the tree, for the root Directory 1.
inner_get_tree(store, page_size, page_token) ==
    LET page_token_digest == PageTokenDigest(page_token)
    IN  IF ~page_token_digest.present
        THEN [ok |-> FALSE, directories |-> <<>>, next_page_token |-> <<>>]
        ELSE LET r == Traverse(store, <<1>>, <<>>, page_size = 0, page_token_digest, page_size)
             IN  [ok |-> TRUE,
                  directories |-> r.directories,
                  next_page_token |->
                      IF r.deque = <<>> THEN <<>>
                      ELSE FormatPageToken(try_into(DigestOfDirectory(Head(r.deque))))]

\* The page tokens of single requests: none, the token of each Directory,
\* a hash without a size, a token whose hash is not hex.
PageTokens ==
    {<<>>}
        \cup {FormatPageToken(try_into(DigestOfDirectory(d))) : d \in 1..MaxDirectories}
        \cup {DigestOfDirectory(1).hash}
        \cup {[i \in 1..(2 * HashBytes) |-> "g"] \o <<"-", "0">>}

\* A single GetTree request.
GetTreeCall(page_size, page_token) ==
    /\ gt_count = 0
    /\ gt_req' = [sent |-> TRUE, page_size |-> page_size, page_token |-> page_token]
    /\ gt_resp' = inner_get_tree(gt_store, page_size, page_token)
    /\ UNCHANGED <<getTreeFrame, gt_store, gt_pages, gt_count>>

\* A client starts to page through the tree: its first request carries the
\* token of the root.
PagingFirst(page_size) ==
    /\ gt_count = 0
    /\ LET page_token == FormatPageToken(try_into(DigestOfDirectory(1)))
           response == inner_get_tree(gt_store, page_size, page_token)
       IN  /\ gt_req' = [sent |-> TRUE, page_size |-> page_size, page_token |-> page_token]
           /\ gt_resp' = response
           /\ gt_pages' = response.directories
    /\ gt_count' = 1
    /\ UNCHANGED <<getTreeFrame, gt_store>>

\* The client asks for the next page with the next_page_token it was given.
PagingNext ==
    /\ gt_count > 0
    /\ gt_count < MaxPages
    /\ gt_resp.ok
    /\ gt_resp.next_page_token # <<>>
    /\ LET response == inner_get_tree(gt_store, gt_req.page_size, gt_resp.next_page_token)
       IN  /\ gt_req' = [gt_req EXCEPT !.page_token = gt_resp.next_page_token]
           /\ gt_resp' = response
           /\ gt_pages' = gt_pages \o response.directories
    /\ gt_count' = gt_count + 1
    /\ UNCHANGED <<getTreeFrame, gt_store>>

NextGetTree ==
    \/ \E page_size \in 0..MaxPageSize, page_token \in PageTokens :
          GetTreeCall(page_size, page_token)
    \/ \E page_size \in 1..MaxPageSize : PagingFirst(page_size)
    \/ PagingNext

InitGetTree ==
    /\ IdleStores
    /\ ClsInit
    /\ WorkerInit
    /\ UploadIdle
    /\ ModifierIdle
    /\ SatisfyIdle
    /\ MemoryInit
    /\ GrpcStoreIdle
    /\ PartitionIdle
    /\ FactoryIdle
    /\ DigestIdle
    /\ TreeIdle
    /\ RaceIdle
    /\ gt_store \in TreeStores
    /\ gt_req = [sent |-> FALSE, page_size |-> 0, page_token |-> <<>>]
    /\ gt_resp = [ok |-> TRUE, directories |-> <<>>, next_page_token |-> <<>>]
    /\ gt_pages = <<>>
    /\ gt_count = 0

SpecGetTree == InitGetTree /\ [][NextGetTree]_vars

\* The Directories reachable from the root in breadth-first order, level by
\* level, a Directory once for every path that leads to it.
RECURSIVE SubdirectoriesOf(_, _)
SubdirectoriesOf(store, level) ==
    IF level = <<>> THEN <<>>
    ELSE store[Head(level)] \o SubdirectoriesOf(store, Tail(level))

RECURSIVE BreadthFirst(_, _)
BreadthFirst(store, level) ==
    IF level = <<>> THEN <<>>
    ELSE level \o BreadthFirst(store, SubdirectoriesOf(store, level))

\* C32: a request with page_size = 0, whatever its page_token, is answered
\* with every Directory reachable from the root in breadth-first order, the
\* root first, and an empty next_page_token.
C32_UnpagedReturnsWholeTree ==
    (gt_req.sent /\ gt_req.page_size = 0) =>
        /\ gt_resp.ok
        /\ gt_resp.directories = BreadthFirst(gt_store, <<1>>)
        /\ gt_resp.next_page_token = <<>>

\* C33: the pages a client receives by following next_page_token are never
\* empty, together they are always a prefix of the unpaged breadth-first
\* sequence, and the whole of it once next_page_token is empty.
C33_PagesAreTheTraversal ==
    gt_count > 0 =>
        LET whole == BreadthFirst(gt_store, <<1>>)
        IN  /\ gt_resp.ok
            /\ gt_resp.directories # <<>>
            /\ Len(gt_pages) <= Len(whole)
            /\ gt_pages = SubSeq(whole, 1, Len(gt_pages))
            /\ gt_resp.next_page_token = <<>> => gt_pages = whole
====
